---------------------------- MODULE Spec2Model ----------------------------
(***************************************************************************)
(* A model of rust-idle: a daemon that polls /proc/diskstats, diffs the    *)
(* per-device sector counters and spins idle SCSI disks down.              *)
(*                                                                         *)
(* Bytes are their ASCII codes, a token or a device name is a sequence of  *)
(* bytes, a line is a sequence of bytes and a snapshot is the sequence of  *)
(* the non-empty lines of the file.  A usize is a number modulo Modulus.   *)
(* A SystemTime is a number of seconds since UNIX_EPOCH (0), a Duration a  *)
(* number of seconds.                                                      *)
(***************************************************************************)
EXTENDS Integers, Sequences, FiniteSets, TLC

(***************************************************************************)
(* Bounds of the model.                                                    *)
(***************************************************************************)
\* Width of the machine word (usize), scaled down from 64.
WordBits == 8
\* The wall clock reads 1 .. MaxTime seconds since UNIX_EPOCH.
MaxTime == 3

Modulus == 2 ^ WordBits

\* The element of a one-element set. In Only({ e(x) : x \in {v} }) the value
\* v is computed once, however often e uses x.
Only(S) == CHOOSE x \in S : TRUE

\* u8 arithmetic of `c.wrapping_sub(b'0')`.
ByteMod == 256
Ascii0 == 48
AsciiSpace == 32

UNIX_EPOCH == 0
\* What SystemTime::now() may return, in any order: the clock is the wall
\* clock, which can be set back.
Times == 1 .. MaxTime

(***************************************************************************)
(* errors.rs: an error is the chain of its contexts, the innermost first,  *)
(* and its source: an io::Error or none.  A text is the sequence of its    *)
(* characters' code points.                                                *)
(***************************************************************************)
NoSource == "none"
IoSource == "io"
\* The value of the variable that holds the error when there is none.
NoError == [chain |-> << >>, source |-> NoSource]
\* From<String> and From<&'static str>
ErrorFrom(msg) == [chain |-> <<msg>>, source |-> NoSource]
\* From<io::Error>
ErrorFromIo == [chain |-> << >>, source |-> IoSource]
\* A context that is not kept.
drop_context(e, msg) == e
\* add_context on an Error: Context::context and Context::with_context
add_context(e, msg) == [e EXCEPT !.chain = Append(@, msg)]

\* ": ", and the text of an io::Error ("Success (os error 0)")
ColonSpace == <<58, 32>>
IoErrorText == <<83, 117, 99, 99, 101, 115, 115, 32, 40, 111, 115, 32, 101, 114, 114, 111, 114, 32, 48, 41>>

\* The loop of Display::fmt over chain.iter().skip(skip).rev(), from the
\* element k down: what it writes.
RECURSIVE WriteContexts(_, _, _)
WriteContexts(chain, k, skip) ==
    IF k <= skip THEN << >>
    ELSE chain[k] \o ColonSpace \o WriteContexts(chain, k - 1, skip)

\* The first message written as a context and again as the root cause.
DisplayNoSkip(e) ==
    WriteContexts(e.chain, Len(e.chain), 0)
    \o (IF e.source # NoSource THEN IoErrorText
        ELSE IF e.chain # << >> THEN e.chain[1]
        ELSE << >>)

\* impl fmt::Display for Error: the text written.
Display(e) ==
    WriteContexts(e.chain, Len(e.chain),
                  IF e.source = NoSource THEN 1 ELSE 0)
    \o (IF e.source # NoSource THEN IoErrorText
        ELSE IF e.chain # << >> THEN e.chain[1]
        ELSE << >>)

\* main: eprintln!("<3>error: {}\n", e) when the process ends with status 1;
\* `old` is what stderr has otherwise.
ErrorPrefix == <<60, 51, 62, 101, 114, 114, 111, 114, 58, 32>>
NewLines == <<10, 10>>
main_report(pc_, e, old) ==
    IF pc_ = "fatal" THEN ErrorPrefix \o Display(e) \o NewLines ELSE old

\* U+FFFD REPLACEMENT CHARACTER
ReplacementChar == 65533
\* String::from_utf8_lossy on bytes that are ASCII or, from 128 on, part of
\* no well-formed sequence.
from_utf8_lossy(bytes) ==
    [i \in 1 .. Len(bytes) |->
        IF bytes[i] < 128 THEN bytes[i] ELSE ReplacementChar]

\* "'"
Quote == <<39>>
\* "Invalid integer: '"
MsgInvalidInteger ==
    <<73, 110, 118, 97, 108, 105, 100, 32, 105, 110, 116, 101, 103, 101, 114,
      58, 32, 39>>
\* "Expected token"
MsgExpectedToken ==
    <<69, 120, 112, 101, 99, 116, 101, 100, 32, 116, 111, 107, 101, 110>>
\* "Parsing line '"
MsgParsingLine ==
    <<80, 97, 114, 115, 105, 110, 103, 32, 108, 105, 110, 101, 32, 39>>
\* "main loop"
MsgMainLoop == <<109, 97, 105, 110, 32, 108, 111, 111, 112>>
\* "Duplicated device: "
MsgDuplicated ==
    <<68, 117, 112, 108, 105, 99, 97, 116, 101, 100, 32, 100, 101, 118, 105,
      99, 101, 58, 32>>

(***************************************************************************)
(* utils.rs                                                                *)
(***************************************************************************)
WrapAdd(a, b) == (a + b) % Modulus
\* usize::saturating_sub in the place of usize::wrapping_sub
SaturatingSub(a, b) == IF a >= b THEN a - b ELSE 0
WrapSub(a, b) == (a + Modulus - b) % Modulus
WrapMul(a, b) == (a * b) % Modulus

\* c.wrapping_sub(b'0') on a u8
DigitOf(c) == (c + ByteMod - Ascii0) % ByteMod

RECURSIVE ParseIntegerFrom(_, _, _)
ParseIntegerFrom(txt, i, res) ==
    IF i > Len(txt) THEN [ok |-> TRUE, val |-> res, err |-> NoError]
    ELSE LET v == DigitOf(txt[i]) IN
         IF v <= 9
         THEN ParseIntegerFrom(txt, i + 1, WrapAdd(WrapMul(res, 10), v))
         ELSE [ok |-> FALSE, val |-> 0,
               err |-> ErrorFrom(MsgInvalidInteger \o from_utf8_lossy(txt)
                                 \o Quote)]

parse_integer(txt) == ParseIntegerFrom(txt, 1, 0)

(***************************************************************************)
(* sys.rs                                                                  *)
(***************************************************************************)
\* The range 0..=71 in the place of 8 | 65..=71.
is_scsi_upto(major) == major <= 71
is_scsi(major) == major = 8 \/ (major >= 65 /\ major <= 71)

(***************************************************************************)
(* iomonitor.rs: parse_line                                                *)
(***************************************************************************)
\* line.split(|c| *c == b' ').filter(|s| s.len() > 0)
RECURSIVE SplitFrom(_, _, _, _)
SplitFrom(line, i, cur, acc) ==
    IF i > Len(line)
    THEN IF Len(cur) > 0 THEN Append(acc, cur) ELSE acc
    ELSE IF line[i] = AsciiSpace
         THEN SplitFrom(line, i + 1, << >>,
                        IF Len(cur) > 0 THEN Append(acc, cur) ELSE acc)
         ELSE SplitFrom(line, i + 1, Append(cur, line[i]), acc)

Tokens(line) == SplitFrom(line, 1, << >>, << >>)

\* name.iter().rev().take_while(|c| c.wrapping_sub(b'0') <= 9).count()
RECURSIVE TrailingDigits(_, _)
TrailingDigits(name, n) ==
    IF n < Len(name) /\ DigitOf(name[Len(name) - n]) <= 9
    THEN TrailingDigits(name, n + 1)
    ELSE n

ParseErr(e) == [kind |-> "err", name |-> << >>, sectors |-> 0, err |-> e]
ParseSkip == [kind |-> "skip", name |-> << >>, sectors |-> 0, err |-> NoError]

\* parse_integer(next_tok()?)? on token k: the error of the one that fails.
IntegerToken(toks, k) ==
    IF Len(toks) < k
    THEN [ok |-> FALSE, val |-> 0, err |-> ErrorFrom(MsgExpectedToken)]
    ELSE parse_integer(toks[k])

parse_line(line) ==
    LET toks == Tokens(line)
        n == Len(toks)
        int(k) == IntegerToken(toks, k)
    IN  IF ~int(1).ok THEN ParseErr(int(1).err)
        ELSE IF ~is_scsi(int(1).val) THEN ParseSkip
        ELSE IF n < 3 THEN ParseErr(ErrorFrom(MsgExpectedToken))
        ELSE LET name == toks[3]
                 name_digits == TrailingDigits(name, 0)
             IN  IF name_digits = 0 THEN ParseSkip
                 ELSE IF ~int(6).ok THEN ParseErr(int(6).err)
                 ELSE IF ~int(10).ok THEN ParseErr(int(10).err)
                 ELSE IF ~int(17).ok THEN ParseErr(int(17).err)
                 ELSE [kind |-> "ok",
                       name |-> SubSeq(name, 1, Len(name) - name_digits),
                       sectors |-> WrapAdd(WrapAdd(int(6).val, int(10).val),
                                           int(17).val),
                       err |-> NoError]


\* Device names.
sda == <<115, 100, 97>>
sdb == <<115, 100, 98>>
sdc == <<115, 100, 99>>

(***************************************************************************)
(* The inputs: snapshots of /proc/diskstats.                               *)
(***************************************************************************)
\* The decimal digits of n, as bytes.
RECURSIVE Dec(_)
Dec(n) == IF n < 10 THEN <<Ascii0 + n>>
          ELSE Append(Dec(n \div 10), Ascii0 + (n % 10))

RECURSIVE Join(_, _)
Join(toks, i) ==
    IF i > Len(toks) THEN << >>
    ELSE IF i = Len(toks) THEN toks[i]
    ELSE toks[i] \o <<AsciiSpace>> \o Join(toks, i + 1)

\* A line of /proc/diskstats: major, minor, name, then 14 counters of which
\* the 3rd, the 7th and the 14th are sectors read, written and discarded.
StatLine(major, name, rd, wr, dc) ==
    <<AsciiSpace, AsciiSpace>> \o
    Join(<<Dec(major), Dec(0), name, Dec(4), Dec(0), rd, Dec(2), Dec(4),
           Dec(0), wr, Dec(2), Dec(0), Dec(3), Dec(3), Dec(0), Dec(0), dc>>, 1)

\* Sector counters (read, written, discarded) of a partition: all zero, a sum
\* of Modulus - 1, and a sum of 1 reached by overflow of a field and of the sum.
CountZero == <<Dec(0), Dec(0), Dec(0)>>
CountHigh == <<Dec(Modulus - 2), Dec(0), Dec(1)>>
CountOne == <<Dec(Modulus + 1), Dec(Modulus - 1), Dec(1)>>

PartLine(dev, part, c) == StatLine(8, dev \o Dec(part), c[1], c[2], c[3])
\* The whole-disk line of a device, and a line of another driver.
DiskLine(dev) == StatLine(8, dev, Dec(9), Dec(9), Dec(9))
LoopLine == StatLine(7, <<108, 111, 111, 112>> \o Dec(0), Dec(5), Dec(0), Dec(0))
\* 'x' where sectors written are expected
BadLine == StatLine(8, sda \o Dec(2), Dec(1), <<120>>, Dec(0))

Snapshots ==
    { [ok |-> TRUE, lines |-> <<DiskLine(sda), PartLine(sda, 1, a)>>] :
        a \in {CountZero, CountHigh, CountOne} }
    \cup
    { [ok |-> TRUE,
       lines |-> <<DiskLine(sda), PartLine(sda, 1, a), LoopLine,
                   PartLine(sdb, 1, b)>>] :
        a \in {CountZero, CountOne}, b \in {CountZero, CountOne} }
    \cup
    { [ok |-> TRUE, lines |-> <<PartLine(sda, 1, CountOne), BadLine>>],
      [ok |-> FALSE, lines |-> << >>],
      \* the devices in another order, and two partitions of one device
      [ok |-> TRUE,
       lines |-> <<PartLine(sdb, 1, CountOne), PartLine(sda, 1, CountZero),
                   PartLine(sda, 2, CountOne)>>] }

(***************************************************************************)
(* The inputs: lines cut short or with a token that is not a number.       *)
(***************************************************************************)
\* The 17 tokens of a line.
BaseToks(major, name) ==
    <<Dec(major), Dec(0), name, Dec(4), Dec(0), Dec(5), Dec(2), Dec(4),
      Dec(0), Dec(6), Dec(2), Dec(0), Dec(3), Dec(3), Dec(0), Dec(0), Dec(7)>>

LineOf(toks) == <<AsciiSpace, AsciiSpace>> \o Join(toks, 1)

\* "x", "1x" and "-1"
NotNumbers == {<<120>>, <<49, 120>>, <<45, 49>>}

\* A line cut after k tokens, for k in cuts, and with its token j
\* replaced by x, for j in places and x in xs.
VariantsOf(toks, cuts, places, xs) ==
    {LineOf(SubSeq(toks, 1, k)) : k \in cuts}
    \cup {LineOf([toks EXCEPT ![j] = x]) : j \in places, x \in xs}

\* A line of a third device.
ThirdKeyLine == PartLine(sdc, 1, CountOne)

\* Lines of a partition, of a whole disk and of another driver.
TestLines ==
    VariantsOf(BaseToks(8, sda \o Dec(2)), 0 .. 17, (1 .. 17) \ {3},
               {<<120>>})
    \cup VariantsOf(BaseToks(8, sda \o Dec(2)), {}, {1, 6}, NotNumbers)
    \cup VariantsOf(BaseToks(8, sda), {3, 10}, {2, 6}, {<<120>>})
    \cup VariantsOf(BaseToks(7, <<108, 111, 111, 112>> \o Dec(0)), {2}, {6},
                    {<<120>>})

\* parse_line on these lines, computed once.
TestTable == [l \in TestLines \cup {ThirdKeyLine} |-> parse_line(l)]

\* parse_line on the lines of the snapshots, computed once.
SnapshotLines == UNION { {snap.lines[i] : i \in 1 .. Len(snap.lines)} : snap \in Snapshots }
ParseTable == [l \in SnapshotLines |-> parse_line(l)]
ParsedLine(l) ==
    IF l \in SnapshotLines THEN ParseTable[l]
    ELSE IF l \in DOMAIN TestTable THEN TestTable[l]
    ELSE parse_line(l)

(***************************************************************************)
(* main.rs: DeviceState, DeviceData, DeviceConfig                          *)
(***************************************************************************)
Spinning == "Spinning"
Synced == "Synced"
Idle == "Idle"

SYNC_SPIN_DOWN == 1
SYNC_SPIN_UP == 2

\* sync_flags & flag != 0, for a one-bit flag
HasFlag(sync_flags, flag) == (sync_flags \div flag) % 2 = 1

\* A record created Idle instead of Spinning.
NewDeviceIdle(name, new_sectors, config) ==
    [name |-> name, new_sectors |-> new_sectors, sectors |-> 0,
     state |-> Idle, last_io |-> UNIX_EPOCH, config |-> config]

\* One element of IOMonitor::state, the tuple (name, new_sectors, DeviceData)
\* flattened: DeviceData::from(config) with the accumulator `sectors`.
NewDevice(name, new_sectors, config) ==
    [name |-> name, new_sectors |-> new_sectors, sectors |-> 0,
     state |-> Spinning, last_io |-> UNIX_EPOCH, config |-> config]

(***************************************************************************)
(* The external world a tick meets: which system calls fail.               *)
(***************************************************************************)
\* read_partial: the lines a failing read of /proc/self/mounts had
\* appended to the buffer before the error.
NoFail == [read_mounts |-> FALSE, read_partial |-> 0, syncfs |-> {},
           sync_blockdev |-> FALSE, spindown |-> FALSE]

\* One event of a tick, in the order the code performs them.
Ev(op, dev, mp, n, ok) == [op |-> op, dev |-> dev, mp |-> mp, n |-> n, ok |-> ok]

(***************************************************************************)
(* mounts.rs                                                               *)
(***************************************************************************)
\* "/dev/"
DevPrefix == <<47, 100, 101, 118, 47>>

StartsWith(s, p) == Len(s) >= Len(p) /\ SubSeq(s, 1, Len(p)) = p

\* The content of /proc/self/mounts.
MountTable ==
    << [source |-> DevPrefix \o sda \o <<49>>, mount_point |-> "/a"],
       [source |-> <<116, 109, 112, 102, 115>>, mount_point |-> "/tmp"],
       [source |-> DevPrefix \o sda \o <<50>>, mount_point |-> "/b"],
       [source |-> DevPrefix \o sdb \o <<49>>, mount_point |-> "/c"] >>

\* mounts.rs parse_line: the mount point of a line whose source is a
\* partition of dev_name, none otherwise.
MountMatches(line, dev_name) ==
    /\ StartsWith(line.source, DevPrefix)
    /\ StartsWith(SubSeq(line.source, Len(DevPrefix) + 1, Len(line.source)),
                  dev_name)

\* A table kept from one tick to the next.
keep_table(mounts) == mounts
\* Mounts::update: BulkReader::clear on the buffer.
update(mounts) == << >>

\* BulkReader::read on /proc/self/mounts: [ok, buf]. read_to_end leaves in
\* the buffer what it had read when it fails.
read(table, fail) ==
    IF fail.read_mounts
    THEN [ok |-> FALSE, buf |-> SubSeq(table, 1, fail.read_partial)]
    ELSE [ok |-> TRUE, buf |-> table]

\* The loop of Mounts::for_dev over the cached table, from line i:
\* the first failing syncfs ends it.
RECURSIVE ForDevFrom(_, _, _, _, _)
ForDevFrom(table, i, dev_name, fail, ev) ==
    IF i > Len(table) THEN [ok |-> TRUE, ev |-> ev]
    ELSE IF MountMatches(table[i], dev_name)
         THEN LET mp == table[i].mount_point
                  ok == mp \notin fail.syncfs
                  ev2 == Append(ev, Ev("syncfs", dev_name, mp, 0, ok))
              IN  IF ok THEN ForDevFrom(table, i + 1, dev_name, fail, ev2)
                  ELSE [ok |-> FALSE, ev |-> ev2]
         ELSE ForDevFrom(table, i + 1, dev_name, fail, ev)

\* Mounts::for_dev: [ok, mounts, ev]. `mounts` is the reader's buffer and
\* `table` the content of /proc/self/mounts.
for_dev(mounts, table, dev_name, fail) ==
    IF mounts = << >> /\ ~read(table, fail).ok
    THEN [ok |-> FALSE, mounts |-> read(table, fail).buf,
          ev |-> <<Ev("read_mounts", dev_name, "", 0, FALSE)>>]
    ELSE LET loaded == IF mounts = << >> THEN read(table, fail).buf
                       ELSE mounts
             ev0 == IF mounts = << >>
                    THEN <<Ev("read_mounts", dev_name, "", 0, TRUE)>>
                    ELSE << >>
         IN  Only({ [ok |-> r.ok, mounts |-> loaded, ev |-> r.ev] :
                    r \in {ForDevFrom(loaded, 1, dev_name, fail, ev0)} })

(***************************************************************************)
(* main.rs: sync_block_device                                              *)
(***************************************************************************)
\* [mounts, ev]: for_dev(..).and_then(|_| sync_blockdev(dev)), an error
\* is printed and dropped.
sync_block_device(mounts, table, dev, fail) ==
    Only({ [mounts |-> r.mounts,
            ev |-> <<Ev("sync", dev, "", 0, TRUE)>> \o r.ev \o
                   (IF ~r.ok
                    THEN <<Ev("sync_failed", dev, "", 0, FALSE)>>
                    ELSE IF fail.sync_blockdev
                    THEN <<Ev("sync_blockdev", dev, "", 0, FALSE),
                           Ev("sync_failed", dev, "", 0, FALSE)>>
                    ELSE <<Ev("sync_blockdev", dev, "", 0, TRUE)>>)] :
           r \in {for_dev(mounts, table, dev, fail)} })

(***************************************************************************)
(* main.rs: Device::tick                                                   *)
(***************************************************************************)
\* sys::spindown_disk, its failure printed and dropped.
SpinDown(dev, fail) == <<Ev("spindown", dev, "", 0, ~fail.spindown)>>

\* A spin-down issued before the sync instead of after it.
FromSpinningSpinDownFirst(d, idle_time, mounts, table, fail) ==
    IF idle_time >= d.config.idle_time
    THEN IF ~HasFlag(d.config.sync_flags, SYNC_SPIN_DOWN)
         THEN [state |-> Idle, mounts |-> mounts,
               ev |-> SpinDown(d.name, fail)]
         ELSE Only({ [state |-> Synced, mounts |-> s.mounts,
                      ev |-> SpinDown(d.name, fail) \o s.ev] :
                     s \in {sync_block_device(mounts, table, d.name, fail)} })
    ELSE [state |-> Spinning, mounts |-> mounts, ev |-> << >>]

\* A failed spin-down that leaves the device Spinning, to be tried again.
FromSpinningKeepOnFail(d, idle_time, mounts, table, fail) ==
    IF idle_time >= d.config.idle_time
    THEN IF ~HasFlag(d.config.sync_flags, SYNC_SPIN_DOWN)
         THEN [state |-> IF fail.spindown THEN Spinning ELSE Idle,
               mounts |-> mounts, ev |-> SpinDown(d.name, fail)]
         ELSE Only({ [state |-> IF fail.spindown THEN Spinning ELSE Synced,
                      mounts |-> s.mounts,
                      ev |-> s.ev \o SpinDown(d.name, fail)] :
                     s \in {sync_block_device(mounts, table, d.name, fail)} })
    ELSE [state |-> Spinning, mounts |-> mounts, ev |-> << >>]

\* The arm DeviceState::Spinning() of the match of Device::tick:
\* [state, mounts, ev].
FromSpinning(d, idle_time, mounts, table, fail) ==
    IF idle_time >= d.config.idle_time
    THEN IF ~HasFlag(d.config.sync_flags, SYNC_SPIN_DOWN)
         THEN [state |-> Idle, mounts |-> mounts,
               ev |-> SpinDown(d.name, fail)]
         ELSE Only({ [state |-> Synced, mounts |-> s.mounts,
                      ev |-> s.ev \o SpinDown(d.name, fail)] :
                     s \in {sync_block_device(mounts, table, d.name, fail)} })
    ELSE [state |-> Spinning, mounts |-> mounts, ev |-> << >>]

\* A Synced device that a busy tick takes back to Spinning.
FromSyncedSeesBusy(busy, mounts) ==
    [state |-> IF busy THEN Spinning ELSE Idle, mounts |-> mounts,
     ev |-> << >>]

\* The arm DeviceState::Synced(): the busy signal is not looked at.
FromSynced(busy, mounts) ==
    [state |-> Idle, mounts |-> mounts, ev |-> << >>]

\* An Idle device spun down again by each tick without activity.
FromIdleRespin(d, busy, mounts, table, fail) ==
    IF busy
    THEN IF HasFlag(d.config.sync_flags, SYNC_SPIN_UP)
         THEN Only({ [state |-> Spinning, mounts |-> s.mounts, ev |-> s.ev] :
                     s \in {sync_block_device(mounts, table, d.name, fail)} })
         ELSE [state |-> Spinning, mounts |-> mounts, ev |-> << >>]
    ELSE [state |-> Idle, mounts |-> mounts, ev |-> SpinDown(d.name, fail)]

\* A sync at each spin-up, whatever the flags.
FromIdleAlwaysSync(d, busy, mounts, table, fail) ==
    IF busy
    THEN Only({ [state |-> Spinning, mounts |-> s.mounts, ev |-> s.ev] :
                s \in {sync_block_device(mounts, table, d.name, fail)} })
    ELSE [state |-> Idle, mounts |-> mounts, ev |-> << >>]

\* The arm DeviceState::Idle().
FromIdle(d, busy, mounts, table, fail) ==
    IF busy
    THEN IF HasFlag(d.config.sync_flags, SYNC_SPIN_UP)
         THEN Only({ [state |-> Spinning, mounts |-> s.mounts, ev |-> s.ev] :
                     s \in {sync_block_device(mounts, table, d.name, fail)} })
         ELSE [state |-> Spinning, mounts |-> mounts, ev |-> << >>]
    ELSE [state |-> Idle, mounts |-> mounts, ev |-> << >>]

\* The match on device_data.state of a device with idle_time > 0:
\* [state, mounts, ev].
Transition(d, busy, idle_time, mounts, table, fail) ==
    CASE d.state = Spinning -> FromSpinning(d, idle_time, mounts, table, fail)
      [] d.state = Synced -> FromSynced(busy, mounts)
      [] d.state = Idle -> FromIdle(d, busy, mounts, table, fail)

\* The retained sectors and last_io left alone by the tick of a Synced
\* device.
DeviceTickSyncedKeepsBaseline(d, t, mounts, table, fail) ==
    LET sectors_inc == WrapSub(d.new_sectors, d.sectors)
        busy == sectors_inc # 0
        on_tick == <<Ev("on_tick", d.name, "", sectors_inc, TRUE)>>
        idle_time == IF busy THEN 0 ELSE t - d.last_io
        d1 == IF busy /\ d.state # Synced
              THEN [d EXCEPT !.sectors = d.new_sectors, !.last_io = t]
              ELSE d
    IN  IF ~busy /\ t < d.last_io
        THEN [dev |-> d, ret |-> d.state, mounts |-> mounts, ev |-> on_tick,
              panic |-> TRUE]
        ELSE IF d.config.idle_time = 0
        THEN [dev |-> d1, ret |-> Spinning, mounts |-> mounts,
              ev |-> on_tick, panic |-> FALSE]
        ELSE Only({ [dev |-> [d1 EXCEPT !.state = r.state],
                     ret |-> r.state, mounts |-> r.mounts,
                     ev |-> on_tick \o r.ev, panic |-> FALSE] :
                    r \in {Transition(d1, busy, idle_time, mounts, table,
                                      fail)} })

\* now.duration_since(last_io) evaluated for a busy device too.
DeviceTickDurationAlways(d, t, mounts, table, fail) ==
    LET sectors_inc == WrapSub(d.new_sectors, d.sectors)
        busy == sectors_inc # 0
        on_tick == <<Ev("on_tick", d.name, "", sectors_inc, TRUE)>>
        idle_time == IF busy THEN 0 ELSE t - d.last_io
        d1 == IF busy
              THEN [d EXCEPT !.sectors = d.new_sectors, !.last_io = t]
              ELSE d
    IN  IF t < d.last_io
        THEN [dev |-> d, ret |-> d.state, mounts |-> mounts, ev |-> on_tick,
              panic |-> TRUE]
        ELSE IF d.config.idle_time = 0
        THEN [dev |-> d1, ret |-> Spinning, mounts |-> mounts,
              ev |-> on_tick, panic |-> FALSE]
        ELSE Only({ [dev |-> [d1 EXCEPT !.state = r.state],
                     ret |-> r.state, mounts |-> r.mounts,
                     ev |-> on_tick \o r.ev, panic |-> FALSE] :
                    r \in {Transition(d1, busy, idle_time, mounts, table,
                                      fail)} })

\* An idle duration taken from the old last_io also when the device is busy.
DeviceTickStaleIdle(d, t, mounts, table, fail) ==
    LET sectors_inc == WrapSub(d.new_sectors, d.sectors)
        busy == sectors_inc # 0
        on_tick == <<Ev("on_tick", d.name, "", sectors_inc, TRUE)>>
        idle_time == t - d.last_io
        d1 == IF busy
              THEN [d EXCEPT !.sectors = d.new_sectors, !.last_io = t]
              ELSE d
    IN  IF ~busy /\ t < d.last_io
        THEN [dev |-> d, ret |-> d.state, mounts |-> mounts, ev |-> on_tick,
              panic |-> TRUE]
        ELSE IF d.config.idle_time = 0
        THEN [dev |-> d1, ret |-> Spinning, mounts |-> mounts,
              ev |-> on_tick, panic |-> FALSE]
        ELSE Only({ [dev |-> [d1 EXCEPT !.state = r.state],
                     ret |-> r.state, mounts |-> r.mounts,
                     ev |-> on_tick \o r.ev, panic |-> FALSE] :
                    r \in {Transition(d1, busy, idle_time, mounts, table,
                                      fail)} })

\* No early return for a device whose idle_time is 0.
DeviceTickNoSkip(d, t, mounts, table, fail) ==
    LET sectors_inc == WrapSub(d.new_sectors, d.sectors)
        busy == sectors_inc # 0
        on_tick == <<Ev("on_tick", d.name, "", sectors_inc, TRUE)>>
        idle_time == IF busy THEN 0 ELSE t - d.last_io
        d1 == IF busy
              THEN [d EXCEPT !.sectors = d.new_sectors, !.last_io = t]
              ELSE d
    IN  IF ~busy /\ t < d.last_io
        THEN [dev |-> d, ret |-> d.state, mounts |-> mounts, ev |-> on_tick,
              panic |-> TRUE]
        ELSE Only({ [dev |-> [d1 EXCEPT !.state = r.state],
                     ret |-> r.state, mounts |-> r.mounts,
                     ev |-> on_tick \o r.ev, panic |-> FALSE] :
                    r \in {Transition(d1, busy, idle_time, mounts, table,
                                      fail)} })

\* Device::tick on one element of the ledger:
\* [dev, ret, mounts, ev, panic]. `ret` is the returned state; the element is
\* left as it was when now.duration_since(last_io) panics.
DeviceTick(d, t, mounts, table, fail) ==
    LET sectors_inc == WrapSub(d.new_sectors, d.sectors)
        busy == sectors_inc # 0
        on_tick == <<Ev("on_tick", d.name, "", sectors_inc, TRUE)>>
    IN  IF ~busy /\ t < d.last_io
        THEN [dev |-> d, ret |-> d.state, mounts |-> mounts, ev |-> on_tick,
              panic |-> TRUE]
        ELSE
        LET idle_time == IF busy THEN 0 ELSE t - d.last_io
            d1 == IF busy
                  THEN [d EXCEPT !.sectors = d.new_sectors, !.last_io = t]
                  ELSE d
        IN  IF d.config.idle_time = 0
            THEN [dev |-> d1, ret |-> Spinning, mounts |-> mounts,
                  ev |-> on_tick, panic |-> FALSE]
            ELSE Only({ [dev |-> [d1 EXCEPT !.state = r.state],
                         ret |-> r.state, mounts |-> r.mounts,
                         ev |-> on_tick \o r.ev, panic |-> FALSE] :
                        r \in {Transition(d1, busy, idle_time, mounts, table,
                                          fail)} })

(***************************************************************************)
(* iomonitor.rs: IOMonitor                                                 *)
(***************************************************************************)
\* Indices are the code's, from 0; None is -1.
RECURSIVE FindIn(_, _, _, _)
FindIn(vec, name, i, stop) ==
    IF i >= stop THEN -1
    ELSE IF vec[i + 1].name = name THEN i
    ELSE FindIn(vec, name, i + 1, stop)

Min(a, b) == IF a <= b THEN a ELSE b

\* A search from the start to the hint only.
get_entry_idx_to_hint(vec, name, hint) == FindIn(vec, name, 0, hint)

\* A search from the hint to the end only.
get_entry_idx_from_hint(vec, name, hint) == FindIn(vec, name, hint, Len(vec))

get_entry_idx(vec, name, hint) ==
    LET first == FindIn(vec, name, hint, Len(vec))
    IN  IF first # -1 THEN first
        ELSE FindIn(vec, name, 0, hint)

\* vec.push(x) whatever the index
InsertAtEnd(vec, idx, x) == Append(vec, x)
\* vec.insert(idx, x)
InsertAt(vec, idx, x) ==
    SubSeq(vec, 1, idx) \o <<x>> \o SubSeq(vec, idx + 1, Len(vec))

\* The loop of check_activity over the lines, from line i:
\* [ok, vec, hint, err]. A parse error ends it with what was done so far.
RECURSIVE ScanLines(_, _, _, _, _)
ScanLines(vec, lines, i, entry_idx, default) ==
    IF i > Len(lines)
    THEN [ok |-> TRUE, vec |-> vec, hint |-> entry_idx, err |-> NoError]
    ELSE Only({
         CASE p.kind = "err" ->
                [ok |-> FALSE, vec |-> vec, hint |-> entry_idx,
                 err |-> add_context(p.err,
                                     MsgParsingLine
                                     \o from_utf8_lossy(lines[i]) \o Quote)]
           [] p.kind = "skip" -> ScanLines(vec, lines, i + 1, entry_idx, default)
           [] p.kind = "ok" ->
                Only({
                IF found # -1
                THEN ScanLines(
                       [vec EXCEPT ![found + 1].new_sectors =
                                       WrapAdd(@, p.sectors)],
                       lines, i + 1, found, default)
                ELSE LET at == Min(Len(vec), entry_idx + 1)
                     IN  ScanLines(
                           InsertAt(vec, at,
                                    NewDevice(p.name, p.sectors, default)),
                           lines, i + 1, at, default) :
                found \in {get_entry_idx(vec, p.name, entry_idx)} }) :
         p \in {ParsedLine(lines[i])} })

\* The accumulators left as the last tick filled them.
KeepAccumulators(vec) == vec
\* for (_, value, _) in self.state.iter_mut() { *value = 0; }
ResetAccumulators(vec) ==
    [i \in 1 .. Len(vec) |-> [vec[i] EXCEPT !.new_sectors = 0]]

\* The evaluations of all the devices first, their side effects afterwards.
EvaluationsFirst(ev) ==
    SelectSeq(ev, LAMBDA e : e.op = "on_tick")
    \o SelectSeq(ev, LAMBDA e : e.op # "on_tick")
RECURSIVE UpdateAllEffectsLast(_, _, _, _, _, _, _, _)
UpdateAllEffectsLast(vec, i, t, mounts, table, fail, ev, will_sleep) ==
    IF i > Len(vec)
    THEN [vec |-> vec, mounts |-> mounts, ev |-> EvaluationsFirst(ev),
          will_sleep |-> will_sleep, panic |-> FALSE]
    ELSE Only({
         IF r.panic
         THEN [vec |-> vec, mounts |-> mounts,
               ev |-> EvaluationsFirst(ev \o r.ev),
               will_sleep |-> will_sleep, panic |-> TRUE]
         ELSE UpdateAllEffectsLast([vec EXCEPT ![i] = r.dev], i + 1, t,
                                   r.mounts, table, fail, ev \o r.ev,
                                   will_sleep /\ r.ret # Synced) :
         r \in {DeviceTick(vec[i], t, mounts, table, fail)} })

\* will_sleep assigned (=) by each device instead of accumulated (&=).
RECURSIVE UpdateAllLastOnly(_, _, _, _, _, _, _, _)
UpdateAllLastOnly(vec, i, t, mounts, table, fail, ev, will_sleep) ==
    IF i > Len(vec)
    THEN [vec |-> vec, mounts |-> mounts, ev |-> ev,
          will_sleep |-> will_sleep, panic |-> FALSE]
    ELSE Only({
         IF r.panic
         THEN [vec |-> vec, mounts |-> mounts, ev |-> ev \o r.ev,
               will_sleep |-> will_sleep, panic |-> TRUE]
         ELSE UpdateAllLastOnly([vec EXCEPT ![i] = r.dev], i + 1, t, r.mounts,
                                table, fail, ev \o r.ev, r.ret # Synced) :
         r \in {DeviceTick(vec[i], t, mounts, table, fail)} })

\* The loop of check_activity over the records, from record i, with the
\* closure of App::tick as update_cb: [vec, mounts, ev, will_sleep, panic].
RECURSIVE UpdateAll(_, _, _, _, _, _, _, _)
UpdateAll(vec, i, t, mounts, table, fail, ev, will_sleep) ==
    IF i > Len(vec)
    THEN [vec |-> vec, mounts |-> mounts, ev |-> ev,
          will_sleep |-> will_sleep, panic |-> FALSE]
    ELSE Only({
         IF r.panic
         THEN [vec |-> vec, mounts |-> mounts, ev |-> ev \o r.ev,
               will_sleep |-> will_sleep, panic |-> TRUE]
         ELSE UpdateAll([vec EXCEPT ![i] = r.dev], i + 1, t, r.mounts, table,
                        fail, ev \o r.ev,
                        will_sleep /\ r.ret # Synced) :
         r \in {DeviceTick(vec[i], t, mounts, table, fail)} })

(***************************************************************************)
(* main.rs: App                                                            *)
(***************************************************************************)
\* The error of a malformed line looked at only after the callbacks ran.
app_tick_late_error(vec, default, mounts, snap, t, fail) ==
    IF ~snap.ok
    THEN [vec |-> ResetAccumulators(vec), buf |-> << >>,
          mounts |-> update(mounts), ev |-> << >>, pc |-> "fatal",
          err |-> add_context(ErrorFromIo, MsgMainLoop)]
    ELSE Only({
         Only({ [vec |-> u.vec, buf |-> snap.lines, mounts |-> u.mounts,
                 ev |-> u.ev,
                 pc |-> IF u.panic THEN "panic"
                        ELSE IF ~scan.ok THEN "fatal"
                        ELSE IF u.will_sleep THEN "sleep" ELSE "tick",
                 err |-> IF ~u.panic /\ ~scan.ok
                         THEN add_context(scan.err, MsgMainLoop)
                         ELSE NoError] :
                u \in {UpdateAll(scan.vec, 1, t, update(mounts), MountTable,
                                 fail, << >>, TRUE)} }) :
         scan \in {ScanLines(ResetAccumulators(vec), snap.lines, 1, 0,
                             default)} })

\* App::tick on a snapshot `snap` ([ok, lines]: the read fails or gives
\* these lines) at clock value t, with what App::run and main do with its
\* result: [vec, buf, mounts, ev, pc, err]. `mounts` is the buffer of
\* self.mounts the tick starts with; `err` is what main prints.
app_tick(vec, default, mounts, snap, t, fail) ==
    IF ~snap.ok
    THEN [vec |-> ResetAccumulators(vec), buf |-> << >>,
          mounts |-> update(mounts), ev |-> << >>, pc |-> "fatal",
          err |-> add_context(ErrorFromIo, MsgMainLoop)]
    ELSE Only({
         IF ~scan.ok
         THEN [vec |-> scan.vec, buf |-> snap.lines,
               mounts |-> update(mounts), ev |-> << >>, pc |-> "fatal",
               err |-> add_context(scan.err, MsgMainLoop)]
         ELSE Only({ [vec |-> u.vec, buf |-> snap.lines, mounts |-> u.mounts,
                      ev |-> u.ev,
                      pc |-> IF u.panic THEN "panic"
                             ELSE IF u.will_sleep THEN "sleep" ELSE "tick",
                      err |-> NoError] :
                     u \in {UpdateAll(scan.vec, 1, t, update(mounts),
                                      MountTable, fail, << >>, TRUE)} }) :
         scan \in {ScanLines(ResetAccumulators(vec), snap.lines, 1, 0,
                             default)} })

\* a.cmp(b) == Less on byte strings
RECURSIVE BytesLess(_, _, _)
BytesLess(a, b, i) ==
    IF i > Len(b) THEN FALSE
    ELSE IF i > Len(a) THEN TRUE
    ELSE IF a[i] # b[i] THEN a[i] < b[i]
    ELSE BytesLess(a, b, i + 1)

\* device_configs.sort_by(|(a, _), (b, _)| a.cmp(b)), a stable sort
RECURSIVE SortInsert(_, _)
SortInsert(sorted, x) ==
    IF sorted = << >> THEN <<x>>
    ELSE IF BytesLess(x.name, sorted[Len(sorted)].name, 1)
         THEN Append(SortInsert(SubSeq(sorted, 1, Len(sorted) - 1), x),
                     sorted[Len(sorted)])
         ELSE Append(sorted, x)

RECURSIVE SortByName(_, _)
SortByName(cfgs, n) ==
    IF n = 0 THEN << >> ELSE SortInsert(SortByName(cfgs, n - 1), cfgs[n])

\* IOMonitor::push
push(vec, dev, config) ==
    LET idx == get_entry_idx(vec, dev, 0) IN
    IF idx # -1
    THEN [vec EXCEPT ![idx + 1] =
              NewDevice(dev, vec[idx + 1].new_sectors, config)]
    ELSE Append(vec, NewDevice(dev, 0, config))

DurationMax == -1
\* Durations shorter than a second are counted in tenths of a second.
TenthsPerSecond == 10
\* The shorter of the two.
ShorterDuration(a, b) == IF a >= b THEN b ELSE a
MaxDuration(a, b) == IF a >= b THEN a ELSE b
MinDuration(a, b) ==
    IF a = DurationMax THEN b
    ELSE IF b = DurationMax THEN a
    ELSE Min(a, b)

\* The loop of App::new over the sorted configurations, from i:
\* [ok, vec, min_idle_time, err]
RECURSIVE InsertConfigured(_, _, _, _, _)
InsertConfigured(cfgs, i, prev_name, vec, min_idle_time) ==
    IF i > Len(cfgs)
    THEN [ok |-> TRUE, vec |-> vec, min_idle_time |-> min_idle_time,
          err |-> NoError]
    ELSE IF prev_name = cfgs[i].name
    THEN [ok |-> FALSE, vec |-> vec, min_idle_time |-> min_idle_time,
          err |-> ErrorFrom(MsgDuplicated \o from_utf8_lossy(cfgs[i].name))]
    ELSE InsertConfigured(
           cfgs, i + 1, cfgs[i].name,
           push(vec, cfgs[i].name, cfgs[i].config),
           IF cfgs[i].config.idle_time > 0
           THEN MinDuration(min_idle_time, cfgs[i].config.idle_time)
           ELSE min_idle_time)

\* App::new and what parse_args and main do with its result:
\* [pc, vec, interval, err]. The interval is in tenths of a second.
AppNew(default, device_configs) ==
    LET r == InsertConfigured(
               SortByName(device_configs, Len(device_configs)), 1, << >>,
               << >>,
               IF default.idle_time > 0 THEN default.idle_time
               ELSE DurationMax)
    IN  IF ~r.ok
        THEN [pc |-> "fatal", vec |-> r.vec, interval |-> 0, err |-> r.err]
        ELSE IF r.min_idle_time = DurationMax
        THEN [pc |-> "exit0", vec |-> r.vec, interval |-> 0, err |-> NoError]
        ELSE [pc |-> "tick", vec |-> r.vec,
              interval |-> MaxDuration(
                             (r.min_idle_time * TenthsPerSecond) \div 10,
                             1 * TenthsPerSecond),
              err |-> NoError]

(***************************************************************************)
(* main.rs: parse_flags and parse_args                                     *)
(***************************************************************************)
\* DeviceConfig::default()
DeviceConfigDefault == [idle_time |-> 0, sync_flags |-> 0, verbosity |-> 0]

\* b':', b'+', b'-', b's', b'S', b'v'
Colon == 58
Plus == 43
Minus == 45
LowerS == 115
UpperS == 83
LowerV == 118
\* u8::MAX, where saturating_add stops
U8Max == 255

MsgIdleTimeSet == <<105, 100, 108, 101, 32, 116, 105, 109, 101, 32, 97, 108, 114, 101, 97, 100, 121, 32, 115, 101, 116>>
MsgInvalidFlag == <<105, 110, 118, 97, 108, 105, 100, 32, 102, 108, 97, 103, 32, 39>>
MsgStat == <<115, 116, 97, 116, 32>>
MsgGettingDevice == <<103, 101, 116, 116, 105, 110, 103, 32, 100, 101, 118, 105, 99, 101, 32, 102, 111, 114, 32>>

\* sync_flags |= flag and sync_flags &= !flag
SetFlag(sync_flags, flag) ==
    IF HasFlag(sync_flags, flag) THEN sync_flags ELSE sync_flags + flag
ClearFlag(sync_flags, flag) ==
    IF HasFlag(sync_flags, flag) THEN sync_flags - flag ELSE sync_flags

\* The return of parse_flags after its loop.
FlagsDone(config, idle_time, idle_time_sealed) ==
    IF idle_time > 0 \/ idle_time_sealed
    THEN [config EXCEPT !.idle_time = idle_time]
    ELSE config

\* The loop of parse_flags from byte i, and its return: [ok, config, err].
RECURSIVE ParseFlagsFrom(_, _, _, _, _, _, _)
ParseFlagsFrom(flags, i, config, idle_time, idle_time_sealed, prefix, prev_flag) ==
    IF i > Len(flags)
    THEN [ok |-> TRUE,
          config |-> FlagsDone(config, idle_time, idle_time_sealed),
          err |-> NoError]
    ELSE
    LET c == flags[i]
        pfx == IF prev_flag # Minus /\ c # prev_flag THEN Plus ELSE prefix
        digit == DigitOf(c)
        sealed == idle_time > 0
    IN  IF digit < 10
        THEN IF idle_time_sealed
             THEN [ok |-> FALSE, config |-> config,
                   err |-> ErrorFrom(MsgIdleTimeSet)]
             ELSE ParseFlagsFrom(flags, i + 1, config, idle_time * 10 + digit,
                                 idle_time_sealed, pfx, c)
        ELSE
        CASE c = LowerS ->
               ParseFlagsFrom(
                 flags, i + 1,
                 [config EXCEPT !.sync_flags =
                     IF pfx = Plus THEN SetFlag(@, SYNC_SPIN_DOWN)
                     ELSE ClearFlag(@, SYNC_SPIN_DOWN)],
                 idle_time, sealed, pfx, c)
          [] c = UpperS ->
               ParseFlagsFrom(
                 flags, i + 1,
                 [config EXCEPT !.sync_flags =
                     IF pfx = Plus THEN SetFlag(@, SYNC_SPIN_UP)
                     ELSE ClearFlag(@, SYNC_SPIN_UP)],
                 idle_time, sealed, pfx, c)
          [] c = LowerV ->
               ParseFlagsFrom(
                 flags, i + 1,
                 [config EXCEPT !.verbosity =
                     IF pfx = Plus THEN Min(@ + 1, U8Max)
                     ELSE SaturatingSub(@, 1)],
                 idle_time, sealed, pfx, c)
          [] c \in {Plus, Minus} ->
               ParseFlagsFrom(flags, i + 1, config, idle_time, sealed, c, c)
          [] OTHER ->
               [ok |-> FALSE, config |-> config,
                err |-> ErrorFrom(MsgInvalidFlag \o <<c>> \o Quote)]

parse_flags(flags, default) ==
    ParseFlagsFrom(flags, 1, default, 0, FALSE, Plus, AsciiSpace)

\* arg.split_once(':'): the position of the first ':', 0 when there is none.
RECURSIVE SplitOnceFrom(_, _)
SplitOnceFrom(arg, i) ==
    IF i > Len(arg) THEN 0
    ELSE IF arg[i] = Colon THEN i
    ELSE SplitOnceFrom(arg, i + 1)

\* The block devices of the machine: whole SCSI disks under /dev/.
DevPaths == {DevPrefix \o sda, DevPrefix \o sdb}

\* sys::link_to_scsi_name: [ok, name, err]. A path that is none of the
\* disks does not exist: stat fails.
link_to_scsi_name(path) ==
    IF path \in DevPaths
    THEN [ok |-> TRUE,
          name |-> SubSeq(path, Len(DevPrefix) + 1, Len(path)),
          err |-> NoError]
    ELSE [ok |-> FALSE, name |-> << >>,
          err |-> add_context(
                    add_context(ErrorFromIo,
                                MsgStat \o from_utf8_lossy(path)),
                    MsgGettingDevice \o from_utf8_lossy(path))]

\* The body of the loop of parse_args for one argument:
\* [ok, default, device_configs, err].
parse_arg(arg, default, configs) ==
    LET at == SplitOnceFrom(arg, 1)
        disk == IF at = 0 THEN arg ELSE SubSeq(arg, 1, at - 1)
        parsed == IF at = 0
                  THEN [ok |-> TRUE, config |-> default, err |-> NoError]
                  ELSE parse_flags(SubSeq(arg, at + 1, Len(arg)), default)
    IN  IF ~parsed.ok
        THEN [ok |-> FALSE, default |-> default, device_configs |-> configs,
              err |-> parsed.err]
        ELSE IF disk = << >>
        THEN [ok |-> TRUE, default |-> parsed.config,
              device_configs |-> configs, err |-> NoError]
        ELSE LET dev == link_to_scsi_name(disk)
             IN  IF ~dev.ok
                 THEN [ok |-> FALSE, default |-> default,
                       device_configs |-> configs, err |-> dev.err]
                 ELSE [ok |-> TRUE, default |-> default,
                       device_configs |->
                         Append(configs, [name |-> dev.name,
                                          config |-> parsed.config]),
                       err |-> NoError]

\* The loop of parse_args over the arguments, from argument i:
\* [ok, default, device_configs, err].
RECURSIVE ParseArgsFrom(_, _, _, _)
ParseArgsFrom(arguments, i, default, configs) ==
    IF i > Len(arguments)
    THEN [ok |-> TRUE, default |-> default, device_configs |-> configs,
          err |-> NoError]
    ELSE Only({ IF r.ok
                THEN ParseArgsFrom(arguments, i + 1, r.default,
                                   r.device_configs)
                ELSE r :
                r \in {parse_arg(arguments[i], default, configs)} })

(***************************************************************************)
(* The inputs: failures and command lines.                                 *)
(***************************************************************************)
FailChoices ==
    { NoFail,
      [NoFail EXCEPT !.read_mounts = TRUE],
      [NoFail EXCEPT !.read_mounts = TRUE, !.read_partial = 1],
      [NoFail EXCEPT !.syncfs = {"/a"}],
      [NoFail EXCEPT !.sync_blockdev = TRUE],
      [NoFail EXCEPT !.spindown = TRUE],
      [read_mounts |-> FALSE, read_partial |-> 0,
       syncfs |-> {"/a", "/b", "/c"},
       sync_blockdev |-> TRUE, spindown |-> TRUE] }

\* An idle time of two seconds with each set of flags, and spin-down
\* disabled (the flags are not looked at then).
Configs ==
    [idle_time : {2}, sync_flags : 0 .. 3, verbosity : {0}]
    \cup {[idle_time |-> 0, sync_flags |-> 3, verbosity |-> 0]}
DefaultConfigs ==
    { [idle_time |-> 2, sync_flags |-> SYNC_SPIN_DOWN, verbosity |-> 0],
      [idle_time |-> 0, sync_flags |-> 0, verbosity |-> 0] }

\* What parse_args hands to App::new: one device; or two arguments, for
\* two devices out of order or for the same device.
Startups ==
    { [default |-> d, device_configs |-> <<[name |-> sda, config |-> c]>>] :
        d \in DefaultConfigs, c \in Configs }
    \cup
    { [default |-> d,
       device_configs |-> <<[name |-> n, config |-> d],
                            [name |-> sda, config |-> c]>>] :
        d \in {dd \in DefaultConfigs : dd.idle_time > 0},
        c \in {cc \in Configs : cc.sync_flags = 0},
        n \in {sda, sdb} }

(***************************************************************************)
(* The state machine                                                       *)
(***************************************************************************)
VARIABLES
    state,           \* IOMonitor::state, the ledger
    buf,             \* the lines last read from /proc/diskstats
    mounts,          \* the buffer of Mounts: the cached mount table
    default_config,  \* App::default_config
    interval,        \* App::interval, in tenths of a second
    now,             \* the clock value the last tick read
    pc,              \* "tick", "sleep", "fatal" (exit 1), "exit0", "panic"
    trace,           \* what the last tick did, in order
    device_configs,  \* the device arguments of the command line
    error,           \* the error main prints before exit(1)
    printed,         \* what main printed of it on stderr
    args             \* the arguments parse_args has not looked at yet

vars == <<state, buf, mounts, default_config, interval, now, pc, trace,
          device_configs, error, printed, args>>

Init ==
    \E s \in Startups :
        LET app == AppNew(s.default, s.device_configs) IN
        /\ state = app.vec
        /\ buf = << >>
        /\ mounts = << >>
        /\ default_config = s.default
        /\ interval = app.interval
        /\ now = UNIX_EPOCH
        /\ pc = app.pc
        /\ trace = << >>
        /\ device_configs = s.device_configs
        /\ error = app.err
        /\ printed = main_report(app.pc, app.err, << >>)
        /\ args = << >>

\* A system call is made by a tick only after on_tick events.
HasEffects(ev) == \E i \in 1 .. Len(ev) : ev[i].op # "on_tick"

\* One iteration of the loop of App::run: App::tick, with main's handling
\* of its error.
Tick ==
    /\ pc = "tick"
    /\ \E t \in Times, snap \in Snapshots :
         \E fail \in IF HasEffects(app_tick(state, default_config, mounts,
                                            snap, t, NoFail).ev)
                     THEN FailChoices ELSE {NoFail} :
           \E r \in {app_tick(state, default_config, mounts, snap, t, fail)} :
           /\ state' = r.vec
           /\ buf' = r.buf
           /\ mounts' = r.mounts
           /\ now' = t
           /\ pc' = r.pc
           /\ trace' = r.ev
           /\ error' = r.err
           /\ printed' = main_report(r.pc, r.err, printed)
    /\ UNCHANGED <<default_config, interval, device_configs, args>>

\* std::thread::sleep(self.interval)
Sleep ==
    /\ pc = "sleep"
    /\ pc' = "tick"
    /\ UNCHANGED <<state, buf, mounts, default_config, interval, now, trace,
                   device_configs, error, printed, args>>

Next == Tick \/ Sleep

Spec == Init /\ [][Next]_vars

(***************************************************************************)
(* What the properties speak of.                                           *)
(***************************************************************************)
Names(vec) == {vec[i].name : i \in 1 .. Len(vec)}
Rec(vec, name) == vec[CHOOSE i \in 1 .. Len(vec) : vec[i].name = name]

\* The record of a device as a tick finds it: the one of the ledger, or the
\* one the tick creates for a device it meets for the first time.
Before(name) ==
    IF name \in Names(state) THEN Rec(state, name)
    ELSE NewDevice(name, 0, default_config)

\* The positions in a trace of the events `op` of a device.
At(tr, op, name) == {k \in 1 .. Len(tr) : tr[k].op = op /\ tr[k].dev = name}
Count(tr, op, name) == Cardinality(At(tr, op, name))

\* A step that is a tick, and one that is a tick that returned Ok.
TickStep == pc = "tick"
TickDone == pc = "tick" /\ pc' \in {"tick", "sleep"}

\* The delta a tick sees for a device and the time it has been idle,
\* from the values before the tick and the accumulator after it.
DeltaOf(name) == (Rec(state', name).new_sectors + Modulus
                  - Before(name).sectors) % Modulus
IdleFor(name) == now' - Before(name).last_io
HasIdleTime(name) == Before(name).config.idle_time > 0
GoesIdle(name) ==
    /\ HasIdleTime(name)
    /\ Before(name).state = Spinning
    /\ DeltaOf(name) = 0
    /\ IdleFor(name) >= Before(name).config.idle_time

(***************************************************************************)
(* C1: a Spinning device with idle_time > 0 and the SPIN_DOWN flag, in the *)
(* tick where it is not busy and has been idle for idle_time or more: one  *)
(* sync-orchestration, then one spin-down command, and it is Synced after  *)
(* the tick.                                                               *)
(***************************************************************************)
C1_SyncThenSpinDown ==
    [][TickDone =>
         \A name \in Names(state') :
           (GoesIdle(name)
            /\ HasFlag(Before(name).config.sync_flags, SYNC_SPIN_DOWN)) =>
             /\ Count(trace', "sync", name) = 1
             /\ Count(trace', "spindown", name) = 1
             /\ \A i \in At(trace', "sync", name) :
                  \A j \in At(trace', "spindown", name) : i < j
             /\ Rec(state', name).state = Synced]_vars

C1_Witness ==
    \E i \in 1 .. Len(state) :
        /\ state[i].state = Synced
        /\ state[i].last_io >= 1
        /\ Count(trace, "sync", state[i].name) = 1
        /\ Count(trace, "spindown", state[i].name) = 1

(***************************************************************************)
(* C2: a Synced device is Idle after the next tick, busy or not, and that  *)
(* tick makes no sync and no spin-down for it; so no device is Synced at   *)
(* the end of two ticks in a row.                                          *)
(***************************************************************************)
C2_SyncedThenIdle ==
    [][TickDone =>
         \A name \in Names(state) :
           Rec(state, name).state = Synced =>
             /\ Rec(state', name).state = Idle
             /\ Count(trace', "sync", name) = 0
             /\ Count(trace', "spindown", name) = 0]_vars

\* An Idle device whose last tick saw a delta: only Synced leads there.
C2_Witness ==
    \E i \in 1 .. Len(state) :
        /\ state[i].state = Idle
        /\ \E k \in At(trace, "on_tick", state[i].name) : trace[k].n # 0

(***************************************************************************)
(* C3: a device with idle_time > 0 and sync_flags = 0: the tick that finds *)
(* it Spinning and idle for idle_time makes it Idle with one spin-down;    *)
(* each further tick without activity keeps it Idle without a spin-down;   *)
(* a tick with a delta makes it Spinning; none of these ticks syncs.       *)
(***************************************************************************)
C3_NoSyncCycle ==
    [][TickDone =>
         \A name \in Names(state') :
           (HasIdleTime(name) /\ Before(name).config.sync_flags = 0) =>
             /\ Count(trace', "sync", name) = 0
             /\ GoesIdle(name) =>
                  /\ Rec(state', name).state = Idle
                  /\ Count(trace', "spindown", name) = 1
             /\ Before(name).state = Idle =>
                  /\ Count(trace', "spindown", name) = 0
                  /\ Rec(state', name).state =
                       IF DeltaOf(name) = 0 THEN Idle ELSE Spinning]_vars

\* The device was active at last_io, went Idle with a spin-down, and stays
\* Idle in a later tick without activity.
C3_Witness ==
    \E i \in 1 .. Len(state) :
        /\ state[i].config.sync_flags = 0
        /\ state[i].state = Idle
        /\ state[i].last_io >= 1
        /\ now - state[i].last_io >= state[i].config.idle_time
        /\ Count(trace, "on_tick", state[i].name) = 1
        /\ Count(trace, "spindown", state[i].name) = 0

(***************************************************************************)
(* C4: a tick issues a spin-down for a device only if the device has       *)
(* idle_time > 0, is Spinning before the tick, is not busy and has been    *)
(* idle for idle_time or more; a Spinning device that is busy or has been  *)
(* idle for less stays Spinning, without sync or spin-down.                *)
(***************************************************************************)
C4_SpinDownOnlyWhenIdle ==
    [][TickStep =>
         \A name \in Names(state') :
           /\ Count(trace', "spindown", name) > 0 => GoesIdle(name)
           /\ (TickDone /\ HasIdleTime(name)
               /\ Before(name).state = Spinning /\ ~GoesIdle(name)) =>
                /\ Rec(state', name).state = Spinning
                /\ Count(trace', "sync", name) = 0
                /\ Count(trace', "spindown", name) = 0]_vars

\* A Spinning device that was idle for less than idle_time in the last tick.
C4_Witness ==
    \E i \in 1 .. Len(state) :
        /\ state[i].config.idle_time > 0
        /\ state[i].state = Spinning
        /\ state[i].last_io >= 1
        /\ now > state[i].last_io
        /\ now - state[i].last_io < state[i].config.idle_time
        /\ \E k \in At(trace, "on_tick", state[i].name) : trace[k].n = 0

(***************************************************************************)
(* C5: an Idle device with idle_time > 0 is Spinning after a busy tick,    *)
(* whatever its flags; the tick syncs it if and only if SPIN_UP is set and *)
(* issues no spin-down for it.                                             *)
(***************************************************************************)
C5_SpinUp ==
    [][TickDone =>
         \A name \in Names(state) :
           (HasIdleTime(name) /\ Rec(state, name).state = Idle
            /\ DeltaOf(name) # 0) =>
             /\ Rec(state', name).state = Spinning
             /\ Count(trace', "sync", name) =
                  IF HasFlag(Rec(state, name).config.sync_flags, SYNC_SPIN_UP)
                  THEN 1 ELSE 0
             /\ Count(trace', "spindown", name) = 0]_vars

\* A device that a spin-up sync has just made Spinning.
C5_Witness ==
    \E i \in 1 .. Len(state) :
        /\ state[i].state = Spinning
        /\ Count(trace, "sync", state[i].name) = 1
        /\ Count(trace, "spindown", state[i].name) = 0

(***************************************************************************)
(* C6: a device whose idle_time is 0 is Spinning after every tick, for any *)
(* snapshots and clock values, and is never synced nor spun down.          *)
(***************************************************************************)
C6_DisabledStaysSpinning ==
    \A i \in 1 .. Len(state) :
        state[i].config.idle_time = 0 =>
          /\ state[i].state = Spinning
          /\ Count(trace, "sync", state[i].name) = 0
          /\ Count(trace, "spindown", state[i].name) = 0

\* A tick found the device without activity for two seconds.
C6_Witness ==
    \E i \in 1 .. Len(state) :
        /\ state[i].config.idle_time = 0
        /\ state[i].last_io >= 1
        /\ now - state[i].last_io >= 2
        /\ \E k \in At(trace, "on_tick", state[i].name) : trace[k].n = 0

(***************************************************************************)
(* C7: after a tick that returned, the loop runs the next tick at once if  *)
(* and only if some device is Synced at the end of the tick; otherwise it  *)
(* sleeps first.                                                           *)
(***************************************************************************)
C7_RetickIffSynced ==
    [][TickDone =>
         /\ pc' = "tick" <=> \E i \in 1 .. Len(state') : state'[i].state = Synced
         /\ pc' = "sleep" <=> \A i \in 1 .. Len(state') : state'[i].state # Synced]_vars

\* The first of two devices is Synced, the last is not, and no sleep follows.
C7_Witness ==
    /\ pc = "tick"
    /\ Len(state) = 2
    /\ state[1].state = Synced
    /\ state[2].state # Synced
    /\ Count(trace, "on_tick", state[2].name) = 1

(***************************************************************************)
(* C8: whether the syncs and the spin-downs of a tick succeed or fail, the *)
(* tick returns, evaluates the same devices and leaves every device as it  *)
(* does when all of them succeed.                                          *)
(***************************************************************************)
OnTicks(tr) == SelectSeq(tr, LAMBDA e : e.op = "on_tick")

C8_OutcomeIgnored ==
    [][(TickStep /\ pc' # "fatal") =>
         \E ok \in {app_tick(state, default_config, mounts,
                             [ok |-> TRUE, lines |-> buf'], now', NoFail)} :
           /\ state' = ok.vec
           /\ pc' = ok.pc
           /\ OnTicks(trace') = OnTicks(ok.ev)]_vars

\* A system call failed for one device and the tick went on to the next.
C8_Witness ==
    /\ pc \in {"tick", "sleep"}
    /\ \E j, k \in 1 .. Len(trace) :
         /\ j < k
         /\ ~trace[j].ok
         /\ trace[j].op = "spindown"
         /\ trace[k].op = "on_tick"

(***************************************************************************)
(* C9: when the snapshot cannot be read or one of its lines does not       *)
(* parse, the tick runs no on_tick: no device changes its state, its       *)
(* cumulative sectors or its last activity, nothing is synced or spun down *)
(* and the loop ends with a fatal error: no tick follows.                  *)
(***************************************************************************)
\* The read failed (a read that succeeds gives lines here) or a line is
\* malformed.
BadSnapshot(lines) ==
    \/ lines = << >>
    \/ \E k \in 1 .. Len(lines) : ParsedLine(lines[k]).kind = "err"

C9_BadSnapshotIsFatal ==
    [][/\ pc # "fatal"
       /\ (TickStep /\ BadSnapshot(buf')) =>
            /\ pc' = "fatal"
            /\ trace' = << >>
            /\ \A name \in Names(state) :
                 /\ name \in Names(state')
                 /\ Rec(state', name).state = Rec(state, name).state
                 /\ Rec(state', name).sectors = Rec(state, name).sectors
                 /\ Rec(state', name).last_io = Rec(state, name).last_io]_vars

\* The loop ended on a malformed line, after a line that gave an Idle
\* device a delta.
C9_Witness ==
    /\ pc = "fatal"
    /\ buf # << >>
    /\ \E i \in 1 .. Len(state) :
         /\ state[i].state = Idle
         /\ state[i].new_sectors # state[i].sectors

(***************************************************************************)
(* C10: the delta of a tick for a device is the new combined sector count  *)
(* minus the retained one, modulo 2^w, and the device is busy exactly when *)
(* it is not zero: also when the counter overflowed in between.            *)
(***************************************************************************)
\* The number a token of digits writes, and the combined count of the
\* lines of a device, by unbounded arithmetic.
RECURSIVE Number(_, _)
Number(tok, n) ==
    IF n = 0 THEN 0 ELSE 10 * Number(tok, n - 1) + (tok[n] - Ascii0)

\* The partition a line is about and the sum of its three sector counts.
TrueLine(l) ==
    LET toks == Tokens(l)
    IN  [part |-> toks[3],
         total |-> Number(toks[6], Len(toks[6]))
                   + Number(toks[10], Len(toks[10]))
                   + Number(toks[17], Len(toks[17]))]

TrueTable == [l \in SnapshotLines |-> TrueLine(l)]

IsPartitionOf(part, name) ==
    /\ Len(part) > Len(name)
    /\ SubSeq(part, 1, Len(name)) = name
    /\ \A j \in Len(name) + 1 .. Len(part) : part[j] \in Ascii0 .. Ascii0 + 9

RECURSIVE CombinedFrom(_, _, _)
CombinedFrom(lines, k, name) ==
    IF k = 0 THEN 0
    ELSE CombinedFrom(lines, k - 1, name)
         + IF IsPartitionOf(TrueTable[lines[k]].part, name)
           THEN TrueTable[lines[k]].total ELSE 0

C10_WrappingDelta ==
    [][TickDone =>
         \A name \in Names(state') :
           \E new \in {CombinedFrom(buf', Len(buf'), name) % Modulus} :
           \E delta \in {(new + Modulus - Before(name).sectors) % Modulus} :
             /\ \A k \in At(trace', "on_tick", name) : trace'[k].n = delta
             /\ Count(trace', "on_tick", name) = 1
             /\ Rec(state', name).sectors = new
             /\ Rec(state', name).last_io =
                  IF delta # 0 THEN now' ELSE Before(name).last_io]_vars

\* The counter went from Modulus - 1 to 1: a delta of 2.
C10_Witness ==
    \E i \in 1 .. Len(state) :
        /\ state[i].sectors = 1
        /\ \E k \in At(trace, "on_tick", state[i].name) : trace[k].n = 2

(***************************************************************************)
(* What the snapshot lines say, read off the text of the lines.            *)
(***************************************************************************)
\* The majors of SCSI disks.
SupportedMajors == {8} \cup (65 .. 71)

\* The device key of an identifier: the identifier without its trailing
\* digits. An identifier with no trailing digit has no key (<<-1>> here).
KeyOf(part) ==
    IF part[Len(part)] \notin Ascii0 .. Ascii0 + 9 THEN <<-1>>
    ELSE CHOOSE k \in {SubSeq(part, 1, m) : m \in 0 .. Len(part) - 1} :
           /\ IsPartitionOf(part, k)
           /\ (k # << >> => k[Len(k)] \notin Ascii0 .. Ascii0 + 9)

\* A line is accepted when its major is supported and its identifier ends
\* with a digit; its key is then the identifier without these digits.
AcceptedLine(l) ==
    LET toks == Tokens(l)
    IN  [accepted |-> /\ Number(toks[1], Len(toks[1])) \in SupportedMajors
                      /\ KeyOf(toks[3]) # <<-1>>,
         key |-> KeyOf(toks[3])]

AcceptedTable == [l \in SnapshotLines |-> AcceptedLine(l)]

AcceptedKeys(lines) ==
    {AcceptedTable[lines[k]].key :
        k \in {j \in 1 .. Len(lines) : AcceptedTable[lines[j]].accepted}}

(***************************************************************************)
(* C11: a tick whose snapshot has an accepted line for a key that is not   *)
(* in the ledger leaves a record for the key, with the default             *)
(* configuration, evaluated once by this tick as a record created Spinning *)
(* is; and every tick evaluates every record of the ledger once, so the    *)
(* record is evaluated by every later tick.                                *)
(***************************************************************************)
C11_NewDeviceTracked ==
    [][TickDone =>
         /\ \A name \in AcceptedKeys(buf') \ Names(state) :
              /\ name \in Names(state')
              /\ Rec(state', name).config = default_config
              /\ Count(trace', "on_tick", name) = 1
              /\ \/ Rec(state', name).state = Spinning
                 \/ /\ Rec(state', name).state \in {Synced, Idle}
                    /\ Count(trace', "spindown", name) = 1
         /\ \A name \in Names(state) :
              /\ name \in Names(state')
              /\ Count(trace', "on_tick", name) = 1]_vars

\* A device that no argument names, evaluated by a tick later than the one
\* that met it.
C11_Witness ==
    /\ pc \in {"tick", "sleep"}
    /\ \E i \in 1 .. Len(state) :
         /\ \A k \in 1 .. Len(device_configs) :
              device_configs[k].name # state[i].name
         /\ state[i].last_io >= 1
         /\ state[i].config = default_config
         /\ \E k \in At(trace, "on_tick", state[i].name) : trace[k].n = 0

(***************************************************************************)
(* C12: a line whose major is not supported, or whose identifier has no    *)
(* trailing digit, adds nothing to any accumulator and creates no record:  *)
(* after the scan the ledger holds the records it had and those of the     *)
(* keys of the accepted lines, and each accumulator is the wrapping sum of *)
(* the accepted lines of its key.                                          *)
(***************************************************************************)
RECURSIVE AcceptedSum(_, _, _)
AcceptedSum(lines, k, name) ==
    IF k = 0 THEN 0
    ELSE AcceptedSum(lines, k - 1, name)
         + IF /\ AcceptedTable[lines[k]].accepted
              /\ AcceptedTable[lines[k]].key = name
           THEN TrueTable[lines[k]].total ELSE 0

C12_SkippedLinesNoEffect ==
    [][(TickStep /\ pc' # "fatal") =>
         /\ Names(state') = Names(state) \cup AcceptedKeys(buf')
         /\ \A name \in Names(state') :
              Rec(state', name).new_sectors =
                AcceptedSum(buf', Len(buf'), name) % Modulus]_vars

\* The snapshot had a whole-disk line with nonzero counts before the line
\* of the first device, and a line of another driver before that of the
\* second.
C12_Witness ==
    /\ pc \in {"tick", "sleep"}
    /\ Len(buf) = 4
    /\ buf[1] = DiskLine(sda)
    /\ buf[3] = LoopLine
    /\ Len(state) = 2
    /\ state[1].name = sda
    /\ state[1].new_sectors = 0
    /\ state[2].new_sectors = 1

(***************************************************************************)
(* A second specification: the loop on snapshots whose last line is a      *)
(* line of /proc/diskstats cut short or with a token that is not a number. *)
(***************************************************************************)
LineSnapshots ==
    { [ok |-> TRUE, lines |-> <<PartLine(sdb, 1, CountOne), l>>] :
        l \in TestLines }

InitLines ==
    \E s \in {st \in Startups :
                 /\ Len(st.device_configs) = 1
                 /\ st.default.idle_time > 0
                 /\ st.device_configs[1].config.sync_flags = 0} :
        LET app == AppNew(s.default, s.device_configs) IN
        /\ state = app.vec
        /\ buf = << >>
        /\ mounts = << >>
        /\ default_config = s.default
        /\ interval = app.interval
        /\ now = UNIX_EPOCH
        /\ pc = app.pc
        /\ trace = << >>
        /\ device_configs = s.device_configs
        /\ error = app.err
        /\ printed = main_report(app.pc, app.err, << >>)
        /\ args = << >>

\* One iteration of the loop of App::run on one of these snapshots.
TickLines ==
    /\ pc = "tick"
    /\ \E t \in Times, snap \in LineSnapshots :
         \E r \in {app_tick(state, default_config, mounts, snap, t, NoFail)} :
           /\ state' = r.vec
           /\ buf' = r.buf
           /\ mounts' = r.mounts
           /\ now' = t
           /\ pc' = r.pc
           /\ trace' = r.ev
           /\ error' = r.err
           /\ printed' = main_report(r.pc, r.err, printed)
    /\ UNCHANGED <<default_config, interval, device_configs, args>>

NextLines == TickLines \/ Sleep

SpecLines == InitLines /\ [][NextLines]_vars

(***************************************************************************)
(* C13, as the claim states it: a line that lacks a token, or that has a   *)
(* character that is not a digit in one of its 16 numeric fields, makes    *)
(* the tick fail with an error that has the line in its text.              *)
(***************************************************************************)
IsNumber(tok) == \A i \in 1 .. Len(tok) : tok[i] \in Ascii0 .. Ascii0 + 9
EndsWithDigit(tok) == tok # << >> /\ tok[Len(tok)] \in Ascii0 .. Ascii0 + 9

\* What the text of a line shows: `flawed` as the claim has it, `fails`
\* with what parse_line looks at, in its order.
LineFacts(l) ==
    LET toks == Tokens(l)
        n == Len(toks)
        bad(j) == n < j \/ ~IsNumber(toks[j])
    IN  [flawed |-> \/ n < 17
                    \/ \E j \in (1 .. 17) \ {3} : ~IsNumber(toks[j]),
         fails |-> \/ bad(1)
                   \/ /\ Number(toks[1], Len(toks[1])) % Modulus
                           \in SupportedMajors
                      /\ \/ n < 3
                         \/ /\ EndsWithDigit(toks[3])
                            /\ (n < 17 \/ bad(6) \/ bad(10) \/ bad(17))]

FactsTable == [l \in SnapshotLines \cup TestLines |-> LineFacts(l)]

Contains(text, l) ==
    \E i \in 0 .. Len(text) - Len(l) : SubSeq(text, i + 1, i + Len(l)) = l
ErrorIncludes(e, l) == \E m \in 1 .. Len(e.chain) : Contains(e.chain[m], l)

C13_AnyFlawedLineFails ==
    [][TickStep =>
         \A k \in 1 .. Len(buf') :
           (/\ FactsTable[buf'[k]].flawed
            /\ \A j \in 1 .. k - 1 : ~FactsTable[buf'[j]].flawed) =>
             /\ pc' = "fatal"
             /\ ErrorIncludes(error', buf'[k])]_vars

(***************************************************************************)
(* C13, amended: a line fails the tick, with an error that has the line in *)
(* its text and before any on_tick, when its major is missing or is not a  *)
(* number; or its major is supported and it has no minor or identifier; or *)
(* its major is supported, its identifier ends with a digit and it has     *)
(* fewer than 17 tokens or a sectors-read, sectors-written or              *)
(* sectors-discarded field that is not a number.  No other line fails it:  *)
(* a line skipped for its major or its identifier is not looked at         *)
(* further, and the other fields are not parsed.                           *)
(***************************************************************************)
C13_ParsedFieldFails ==
    [][(TickStep /\ buf' # << >>) =>
         /\ pc' = "fatal" <=> \E k \in 1 .. Len(buf') : FactsTable[buf'[k]].fails
         /\ \A k \in 1 .. Len(buf') :
              (/\ FactsTable[buf'[k]].fails
               /\ \A j \in 1 .. k - 1 : ~FactsTable[buf'[j]].fails) =>
                /\ ErrorIncludes(error', buf'[k])
                /\ ~ErrorIncludes(error', buf'[1]) \/ k = 1
                /\ trace' = << >>]_vars

\* The tick failed on a second line that lacks a token.
C13_Witness ==
    /\ pc = "fatal"
    /\ Len(buf) = 2
    /\ Len(Tokens(buf[2])) = 9
    /\ error.chain[1] = MsgExpectedToken
    /\ Contains(error.chain[2], buf[2])

(***************************************************************************)
(* C14, as the claim states it: a tick on the snapshot the tick before it  *)
(* had sees a delta of zero for every device and leaves every device in    *)
(* its state, but a Synced device, which becomes Idle.                     *)
(***************************************************************************)
\* A tick that returns, on the lines of the tick before it.
SecondRun == TickDone /\ buf # << >> /\ buf' = buf

C14_SecondRunKeepsStates ==
    [][SecondRun =>
         \A name \in Names(state') :
           /\ name \in Names(state)
           /\ \A k \in At(trace', "on_tick", name) : trace'[k].n = 0
           /\ Rec(state', name).state =
                IF Rec(state, name).state = Synced THEN Idle
                ELSE Rec(state, name).state]_vars

(***************************************************************************)
(* C14, amended: a tick on the snapshot the tick before it had sees a      *)
(* delta of zero for every device and leaves every device in its state,    *)
(* but a Synced device, which becomes Idle, and a Spinning device with     *)
(* idle_time > 0 whose last activity is idle_time or more before the       *)
(* clock value of this tick, which is spun down: it becomes Synced when    *)
(* SPIN_DOWN is set and Idle when not.                                     *)
(***************************************************************************)
C14_SecondRunZeroDelta ==
    [][SecondRun =>
         \A name \in Names(state') :
           /\ name \in Names(state)
           /\ Count(trace', "on_tick", name) = 1
           /\ \A k \in At(trace', "on_tick", name) : trace'[k].n = 0
           /\ Rec(state', name).sectors = Rec(state, name).sectors
           /\ Rec(state', name).last_io = Rec(state, name).last_io
           /\ Rec(state', name).state =
                IF Rec(state, name).state = Synced THEN Idle
                ELSE IF /\ Rec(state, name).state = Spinning
                        /\ Rec(state, name).config.idle_time > 0
                        /\ now' - Rec(state, name).last_io
                             >= Rec(state, name).config.idle_time
                THEN IF HasFlag(Rec(state, name).config.sync_flags,
                                SYNC_SPIN_DOWN)
                     THEN Synced ELSE Idle
                ELSE Rec(state, name).state]_vars

\* Two devices with nonzero counts, no delta in the last tick, and one of
\* them Idle with no spin-down in that tick.
C14_Witness ==
    /\ pc \in {"tick", "sleep"}
    /\ Len(state) = 2
    /\ \A i \in 1 .. Len(state) :
         /\ state[i].sectors # 0
         /\ state[i].sectors = state[i].new_sectors
         /\ \E k \in At(trace, "on_tick", state[i].name) : trace[k].n = 0
    /\ \E i \in 1 .. Len(state) :
         /\ state[i].state = Idle
         /\ Count(trace, "spindown", state[i].name) = 0

(***************************************************************************)
(* C15: the ledger never holds two records with the same key; and when two *)
(* device arguments have the same key, the program ends with the error     *)
(* "Duplicated device: <key>" and no tick has run.                         *)
(***************************************************************************)
DuplicatedArguments ==
    {device_configs[i].name : i \in
        {k \in 1 .. Len(device_configs) :
            \E j \in 1 .. Len(device_configs) :
                j # k /\ device_configs[j].name = device_configs[k].name}}

C15_UniqueKeys ==
    /\ \A i, j \in 1 .. Len(state) :
         state[i].name = state[j].name => i = j
    /\ DuplicatedArguments # {} =>
         /\ pc = "fatal"
         /\ now = UNIX_EPOCH
         /\ buf = << >>
         /\ trace = << >>
         /\ \E name \in DuplicatedArguments :
              error = [chain |-> <<MsgDuplicated \o name>>,
                       source |-> NoSource]

\* The last tick met the second record's key first and then, with the hint
\* past it, the key of the first record.
C15_Witness ==
    /\ pc \in {"tick", "sleep"}
    /\ Len(state) = 2
    /\ Len(buf) = 3
    /\ AcceptedTable[buf[1]].key = state[2].name
    /\ AcceptedTable[buf[2]].key = state[1].name
    /\ Len(device_configs) = 1

\* Two arguments for one device.
C15_DuplicateStartup == DuplicatedArguments # {} /\ pc = "fatal"

(***************************************************************************)
(* C16: a tick whose snapshot has no accepted line for a device of the     *)
(* ledger keeps the device's record, with the cumulative sectors it had    *)
(* before the tick.                                                        *)
(***************************************************************************)
C16_AbsentDeviceKeepsSectors ==
    [][TickDone =>
         \A name \in Names(state) :
           /\ name \in Names(state')
           /\ name \notin AcceptedKeys(buf') =>
                Rec(state', name).sectors = Rec(state, name).sectors]_vars

(***************************************************************************)
(* C17: each sync-orchestration of a tick attempts the flush of the        *)
(* device's write cache once, whether the mount table could be read and    *)
(* the filesystems flushed or not.                                         *)
(***************************************************************************)
C17_BlockdevFlushAlways ==
    [][TickStep =>
         \A name \in Names(state') :
           Count(trace', "sync_blockdev", name) = Count(trace', "sync", name)]_vars

(***************************************************************************)
(* C18: a sync-orchestration that could read the mount table flushes each  *)
(* mount of the device once, whether the flush of another of its mounts    *)
(* failed or not, and reports a failure if one of them failed.             *)
(***************************************************************************)
\* The mount points of the table whose source is /dev/<name>...
MountPointsOf(name) ==
    {MountTable[i].mount_point : i \in
        {k \in 1 .. Len(MountTable) :
            /\ Len(MountTable[k].source) >= Len(DevPrefix) + Len(name)
            /\ SubSeq(MountTable[k].source, 1, Len(DevPrefix) + Len(name))
                 = DevPrefix \o name}}

C18_EveryMountFlushed ==
    [][TickStep =>
         \A name \in Names(state') :
           (/\ Count(trace', "sync", name) = 1
            /\ \A k \in At(trace', "read_mounts", name) : trace'[k].ok) =>
             /\ \A mp \in MountPointsOf(name) :
                  Cardinality({k \in At(trace', "syncfs", name) :
                                 trace'[k].mp = mp}) = 1
             /\ (\E k \in At(trace', "syncfs", name) : ~trace'[k].ok) =>
                  Count(trace', "sync_failed", name) = 1]_vars

(***************************************************************************)
(* C19, as stated: in the trace of a tick no device is evaluated after a   *)
(* side effect (an event of a sync or a spin-down) of any device.          *)
(***************************************************************************)
IsEffect(e) == e.op # "on_tick"

Ops(tr, op) == {k \in 1 .. Len(tr) : tr[k].op = op}

C20_MountsLoadedOncePerTick ==
    [][TickStep =>
         /\ \A k \in Ops(trace', "sync") :
              (\A j \in Ops(trace', "sync") : k <= j) =>
                k < Len(trace') /\ trace'[k + 1].op = "read_mounts"
         /\ \A k \in Ops(trace', "read_mounts") :
              /\ k > 1
              /\ trace'[k - 1].op = "sync"
              /\ trace'[k - 1].dev = trace'[k].dev
              /\ \A j \in Ops(trace', "read_mounts") : j < k => ~trace'[j].ok
         /\ Cardinality(Ops(trace', "read_mounts")) > 1 => mounts' = << >>
         /\ Ops(trace', "read_mounts") = {} => mounts' = << >>
         /\ \A k \in Ops(trace', "syncfs") :
              /\ \E j \in Ops(trace', "read_mounts") : j < k
              /\ \E i \in 1 .. Len(mounts') :
                   /\ mounts'[i].mount_point = trace'[k].mp
                   /\ MountMatches(mounts'[i], trace'[k].dev)]_vars

\* A tick that synced two devices and read the table once, for the first:
\* a filesystem of the second was flushed from the cached table.
C20_Witness ==
    /\ Cardinality(Ops(trace, "sync")) = 2
    /\ Cardinality(Ops(trace, "read_mounts")) = 1
    /\ \E k \in Ops(trace, "syncfs"), j \in Ops(trace, "read_mounts") :
         trace[k].dev # trace[j].dev /\ trace[j].ok
    /\ mounts = MountTable

\* A tick that synced a device began with a table cached by an earlier
\* tick and read the table again.
C20_StaleTableDropped ==
    /\ pc = "tick"
    /\ mounts # << >>
    /\ \E t \in Times, snap \in Snapshots :
         app_tick(state, default_config, mounts, snap, t, NoFail).ev # << >>
         /\ Ops(app_tick(state, default_config, mounts, snap, t, NoFail).ev,
                "read_mounts") # {}

(***************************************************************************)
(* A third specification: the command line. parse_args takes one argument  *)
(* at a time, then App::new builds the application or ends the process.    *)
(***************************************************************************)
\* Flag strings: none, numbers, numbers and flags, two numbers, a letter
\* that is no flag.
FlagTexts ==
    { << >>,
      <<48>>,
      <<53>>,
      <<49, 53>>,
      <<51, 48, 48>>,
      <<48, 115>>,
      <<115, 48>>,
      <<48, 115, 53>>,
      <<51, 48, 48, 115, 54, 48, 48>>,
      <<51, 115>>,
      <<83, 50, 53, 118>>,
      <<120>>,
      <<45, 115>>,
      <<115, 45, 115, 50, 48>> }

DevSda == DevPrefix \o sda
DevSdb == DevPrefix \o sdb

\* The two command lines of the usage text.
\*   :svv300 /dev/sda /dev/sdb:6000-sS-vv :-v600
UsageFirst ==
    << <<58, 115, 118, 118, 51, 48, 48>>, DevSda, DevSdb \o <<58, 54, 48, 48, 48, 45, 115, 83, 45, 118, 118>>, <<58, 45, 118, 54, 48, 48>> >>
\*   /dev/sda:300svv /dev/sdb:6000S :600s
UsageSecond ==
    << DevSda \o <<58, 51, 48, 48, 115, 118, 118>>, DevSdb \o <<58, 54, 48, 48, 48, 83>>, <<58, 54, 48, 48, 115>> >>

\* Command lines: a default and a device; two devices, or the same device
\* twice; a device without flags after a default, and a path that is no
\* device.
ArgLists ==
    {UsageFirst, UsageSecond, << >>, << <<47, 100, 101, 118, 47, 115, 100, 99, 58, 53>> >>}
    \cup { << <<Colon>> \o d, DevSda \o <<Colon>> \o f >> :
             d \in FlagTexts, f \in FlagTexts }
    \cup { << DevSda \o <<Colon>> \o f, n \o <<Colon>> \o g >> :
             f \in {<<53>>, <<51, 48, 48>>, <<48>>}, g \in FlagTexts,
             n \in {DevSda, DevSdb} }
    \cup { << <<Colon>> \o d, DevSdb, DevSda \o <<Colon>> \o f,
              <<Colon>> \o g >> :
             d \in {<< >>, <<49, 53>>, <<48>>}, f \in {<<48>>, <<51, 48, 48>>, << >>},
             g \in {<<48>>, <<53>>, <<118>>} }

InitArgs ==
    /\ args \in ArgLists
    /\ state = << >>
    /\ buf = << >>
    /\ mounts = << >>
    /\ default_config = DeviceConfigDefault
    /\ interval = 0
    /\ now = UNIX_EPOCH
    /\ pc = "args"
    /\ trace = << >>
    /\ device_configs = << >>
    /\ error = NoError
    /\ printed = << >>

\* One iteration of the loop of parse_args; an error ends the process.
ParseArg ==
    /\ pc = "args"
    /\ args # << >>
    /\ \E r \in {parse_arg(Head(args), default_config, device_configs)} :
         /\ default_config' = r.default
         /\ device_configs' = r.device_configs
         /\ error' = r.err
         /\ pc' = IF r.ok THEN "args" ELSE "fatal"
         /\ printed' = main_report(pc', r.err, printed)
    /\ args' = Tail(args)
    /\ UNCHANGED <<state, buf, mounts, interval, now, trace>>

\* App::new on what the arguments gave, and what parse_args and main do
\* with its result.
Start ==
    /\ pc = "args"
    /\ args = << >>
    /\ \E app \in {AppNew(default_config, device_configs)} :
         /\ state' = app.vec
         /\ interval' = app.interval
         /\ pc' = app.pc
         /\ error' = app.err
         /\ printed' = main_report(app.pc, app.err, printed)
    /\ UNCHANGED <<buf, mounts, default_config, now, trace, device_configs,
                   args>>

NextArgs == ParseArg \/ Start

SpecArgs == InitArgs /\ [][NextArgs]_vars

(***************************************************************************)
(* C21: once App::new has returned without error, with m the smallest      *)
(* nonzero idle_time among the configurations (those of the devices and    *)
(* the default one, which configures the devices found later): if there is *)
(* none the process has exited with status 0 and no tick is ever run;      *)
(* otherwise the loop starts with interval = max(1 s, m / 10).             *)
(***************************************************************************)
IdleTimes ==
    ({default_config.idle_time}
     \cup {device_configs[i].config.idle_time :
             i \in 1 .. Len(device_configs)}) \ {0}

Smallest(S) == CHOOSE m \in S : \A x \in S : m <= x

C21_NothingToDo ==
    /\ pc = "exit0"
    /\ Len(device_configs) = 1
    /\ args = << >>

(***************************************************************************)
(* C22: every record has last_io <= now at the start, and a tick that      *)
(* reads a clock value not before the last one, on records with            *)
(* last_io <= now, does not panic and leaves last_io <= now in every       *)
(* record; the duration since last_io is taken only for a device that is   *)
(* not busy: a tick in which every device is busy does not panic whatever  *)
(* the clock, and a busy device has last_io = now after the tick and is    *)
(* not spun down.                                                          *)
(***************************************************************************)
LastIoNotAfter(vec, t) == \A i \in 1 .. Len(vec) : vec[i].last_io <= t

AllBusy ==
    /\ pc' # "fatal"
    /\ \A i \in 1 .. Len(trace') :
         trace'[i].op = "on_tick" => trace'[i].n # 0

C22_MonotoneClockNoPanic ==
    /\ LastIoNotAfter(state, now)
    /\ [][TickStep =>
            /\ (now' >= now /\ LastIoNotAfter(state, now)) =>
                 pc' # "panic" /\ LastIoNotAfter(state', now')
            /\ AllBusy => pc' # "panic"
            /\ TickDone =>
                 \A name \in Names(state') :
                   DeltaOf(name) # 0 =>
                     /\ Rec(state', name).last_io = now'
                     /\ Rec(state', name).sectors =
                          Rec(state', name).new_sectors
                     /\ Count(trace', "spindown", name) = 0]_vars

\* After a tick, a device that was not busy keeps the time of an earlier
\* tick and another, busy, has the time of this tick.
C22_Witness ==
    /\ pc \in {"tick", "sleep"}
    /\ \E i, j \in 1 .. Len(state) :
         /\ state[i].last_io >= 1
         /\ state[i].last_io < now
         /\ \E k \in At(trace, "on_tick", state[i].name) : trace[k].n = 0
         /\ state[j].last_io = now
         /\ \E k \in At(trace, "on_tick", state[j].name) : trace[k].n # 0

\* A tick panicked: the clock had moved backward for a device not busy.
C22_ClockWentBack ==
    /\ pc = "panic"
    /\ \E i \in 1 .. Len(state) : state[i].last_io > now

(***************************************************************************)
(* C23: the example of the usage text holds: when parse_args has taken all *)
(* the arguments of ':svv300 /dev/sda /dev/sdb:6000-sS-vv :-v600', the     *)
(* configurations of the devices and the default configuration are those   *)
(* that '/dev/sda:300svv /dev/sdb:6000S :600s' gives.                      *)
(***************************************************************************)
Parsed(arguments) == ParseArgsFrom(arguments, 1, DeviceConfigDefault, << >>)

GivenBy(arguments) ==
    /\ Parsed(arguments).ok
    /\ default_config = Parsed(arguments).default
    /\ device_configs = Parsed(arguments).device_configs

C23_UsageExample ==
    (pc = "args" /\ args = << >> /\ GivenBy(UsageFirst)) =>
      GivenBy(UsageSecond)

\* What the two command lines agree on: the devices' configurations.
C23_SameDevices ==
    /\ pc = "args" /\ args = << >> /\ GivenBy(UsageFirst)
    /\ device_configs = Parsed(UsageSecond).device_configs
    /\ default_config.idle_time = Parsed(UsageSecond).default.idle_time
    /\ default_config.sync_flags = Parsed(UsageSecond).default.sync_flags
    /\ default_config.verbosity = 1
    /\ Parsed(UsageSecond).default.verbosity = 0

(***************************************************************************)
(* C24: when parse_args takes an argument whose flag string holds one      *)
(* number and accepts it, the configuration it makes (of the device, or    *)
(* the new default) has that number as idle_time, 0 included, whatever the *)
(* default was; and it rejects an argument whose flag string holds digits, *)
(* then something else, then digits again.                                 *)
(***************************************************************************)
IsDigit(c) == c \in Ascii0 .. Ascii0 + 9

\* The numbers of a flag string: where its runs of digits start.
NumberStarts(flags) ==
    {i \in 1 .. Len(flags) :
        IsDigit(flags[i]) /\ (i = 1 \/ ~IsDigit(flags[i - 1]))}

\* The value of the digits from position i on, after the value v.
RECURSIVE NumberAt(_, _, _)
NumberAt(flags, i, v) ==
    IF i > Len(flags) \/ ~IsDigit(flags[i]) THEN v
    ELSE NumberAt(flags, i + 1, 10 * v + (flags[i] - Ascii0))

\* The flag string of the argument being taken, if it has one, and the
\* configuration made from it.
HasFlags == SplitOnceFrom(Head(args), 1) > 0
FlagsOf == SubSeq(Head(args), SplitOnceFrom(Head(args), 1) + 1,
                  Len(Head(args)))
ConfigMade ==
    IF SplitOnceFrom(Head(args), 1) = 1 THEN default_config'
    ELSE device_configs'[Len(device_configs')].config

C24_NumberOverrides ==
    [][(pc = "args" /\ args # << >> /\ HasFlags) =>
         /\ (pc' = "args" /\ Cardinality(NumberStarts(FlagsOf)) = 1) =>
              \A i \in NumberStarts(FlagsOf) :
                ConfigMade.idle_time = NumberAt(FlagsOf, i, 0)
         /\ Cardinality(NumberStarts(FlagsOf)) > 1 =>
              pc' = "fatal"]_vars

(***************************************************************************)
(* A fourth specification: an error made from a message or from an I/O    *)
(* error gets contexts on its way up, and main prints it.                  *)
(***************************************************************************)
MaxChain == 4

\* "a", "b", "c"
Messages == {<<97>>, <<98>>, <<99>>}

InitErrors ==
    /\ error \in {ErrorFrom(m) : m \in Messages} \cup {ErrorFromIo}
    /\ printed = << >>
    /\ pc = "error"
    /\ state = << >>
    /\ buf = << >>
    /\ mounts = << >>
    /\ default_config = DeviceConfigDefault
    /\ interval = 0
    /\ now = UNIX_EPOCH
    /\ trace = << >>
    /\ device_configs = << >>
    /\ args = << >>

\* .context(msg) or .with_context(|| msg) on the Err being returned
AddContext ==
    /\ pc = "error"
    /\ Len(error.chain) < MaxChain
    /\ \E m \in Messages : error' = add_context(error, m)
    /\ UNCHANGED <<state, buf, mounts, default_config, interval, now, pc,
                   trace, device_configs, printed, args>>

\* The error reaches main.
PrintError ==
    /\ pc = "error"
    /\ pc' = "fatal"
    /\ printed' = main_report(pc', error, printed)
    /\ UNCHANGED <<state, buf, mounts, default_config, interval, now, trace,
                   device_configs, error, args>>

NextErrors == AddContext \/ PrintError

SpecErrors == InitErrors /\ [][NextErrors]_vars

(***************************************************************************)
(* C25: the text printed for an error is its contexts, from the last added *)
(* to the first added, each followed by ": ", then its root cause: the     *)
(* text of the I/O error, or the message the error was made from. Message  *)
(* "c" with context "b" then "a" is printed "a: b: c".                     *)
(***************************************************************************)
\* The root cause and the contexts of an error, in the order they were
\* added.
RootCause(e) == IF e.source = IoSource THEN IoErrorText ELSE Head(e.chain)
ContextsOf(e) == IF e.source = IoSource THEN e.chain ELSE Tail(e.chain)

RECURSIVE LastFirst(_, _)
LastFirst(contexts, root) ==
    IF contexts = << >> THEN root
    ELSE contexts[Len(contexts)] \o <<58, 32>>
         \o LastFirst(SubSeq(contexts, 1, Len(contexts) - 1), root)

C25_DisplayOrder ==
    pc = "fatal" =>
      /\ printed = ErrorPrefix \o LastFirst(ContextsOf(error), RootCause(error))
                   \o NewLines
      /\ error = add_context(add_context(ErrorFrom(<<99>>), <<98>>), <<97>>)
           => printed = ErrorPrefix \o <<97, 58, 32, 98, 58, 32, 99>>
                        \o NewLines

\* Printed: an I/O error with three contexts, two of them the same message.
C25_Witness ==
    /\ pc = "fatal"
    /\ error.source = IoSource
    /\ error.chain = <<<<98>>, <<97>>, <<98>>>>
    /\ Len(printed) = Len(ErrorPrefix) + 9 + Len(IoErrorText) + 2

\* Printed: "a: b: c".
C25_Example ==
    /\ pc = "fatal"
    /\ error = [chain |-> <<<<99>>, <<98>>, <<97>>>>, source |-> NoSource]
    /\ printed = ErrorPrefix \o <<97, 58, 32, 98, 58, 32, 99>> \o NewLines

(***************************************************************************)
(* C26: after a tick that returned, the accumulator of every record is the *)
(* wrapping sum of the accepted lines of its key in the snapshot, 0 when   *)
(* there is none, and the one evaluation of the record has retained it;    *)
(* the scan gives every key the same accumulator when the lines come in    *)
(* another order, when the records are in another order, when the keys of  *)
(* the snapshot have no record yet, and wherever the search starts; and    *)
(* the search from any hint finds a key exactly when a record has it.      *)
(***************************************************************************)
Reverse(seq) == [i \in 1 .. Len(seq) |-> seq[Len(seq) + 1 - i]]
Rotate(seq) == IF seq = << >> THEN seq ELSE Tail(seq) \o <<Head(seq)>>
Orders(seq) == {seq, Reverse(seq), Rotate(seq)}

\* The ledger with fresh accumulators; and without the records of the keys
\* of the lines.
Fresh == ResetAccumulators(state)
WithoutKeysOf(lines) ==
    SelectSeq(Fresh, LAMBDA d : d.name \notin AcceptedKeys(lines))

Keys == {sda, sdb, sdc}

C26_AccumulatorIsSumOfLines ==
    (pc \in {"tick", "sleep"} /\ buf # << >>) =>
      /\ \A i \in 1 .. Len(state) :
           /\ state[i].new_sectors =
                AcceptedSum(buf, Len(buf), state[i].name) % Modulus
           /\ Count(trace, "on_tick", state[i].name) = 1
           /\ state[i].sectors = state[i].new_sectors
      /\ \A lines \in Orders(buf) :
           \A vec \in {Fresh, Reverse(Fresh), WithoutKeysOf(buf)} :
             \A hint \in 0 .. Len(vec) :
               \E scan \in {ScanLines(vec, lines, 1, hint, default_config)} :
                 /\ scan.ok
                 /\ Names(scan.vec) = Names(state)
                 /\ \A j \in 1 .. Len(scan.vec) :
                      scan.vec[j].new_sectors =
                        Rec(state, scan.vec[j].name).new_sectors
      /\ \A name \in Keys, hint \in 0 .. Len(state) :
           \E idx \in {get_entry_idx(state, name, hint)} :
             /\ idx # -1 <=> name \in Names(state)
             /\ idx # -1 => state[idx + 1].name = name

\* The snapshot's first line is of the second record and its two other
\* lines, whose counts wrap around, are of the first; a third key has no
\* record.
C26_Witness ==
    /\ pc \in {"tick", "sleep"}
    /\ Len(state) = 2
    /\ Len(buf) = 3
    /\ AcceptedTable[buf[1]].key = state[2].name
    /\ AcceptedTable[buf[2]].key = state[1].name
    /\ AcceptedTable[buf[3]].key = state[1].name
    /\ state[1].new_sectors = 1
    /\ state[2].new_sectors = 1
    /\ get_entry_idx(state, state[1].name, 1) = 0

(***************************************************************************)
(* A fifth specification: the loop on snapshots in which devices appear    *)
(* that have no record yet, before, between and after those that have.     *)
(***************************************************************************)
KeySnapshots ==
    { [ok |-> TRUE, lines |-> l] :
        l \in { <<PartLine(sdb, 1, CountOne)>>,
                <<PartLine(sda, 2, CountOne), ThirdKeyLine>>,
                <<ThirdKeyLine, LoopLine, PartLine(sdb, 1, CountOne)>>,
                <<ThirdKeyLine>>,
                <<PartLine(sda, 2, CountOne)>> } }

\* One iteration of the loop of App::run on one of these snapshots.
TickKeys ==
    /\ pc = "tick"
    /\ \E t \in Times, snap \in KeySnapshots :
         \E r \in {app_tick(state, default_config, mounts, snap, t, NoFail)} :
           /\ state' = r.vec
           /\ buf' = r.buf
           /\ mounts' = r.mounts
           /\ now' = t
           /\ pc' = r.pc
           /\ trace' = r.ev
           /\ error' = r.err
           /\ printed' = main_report(r.pc, r.err, printed)
    /\ UNCHANGED <<default_config, interval, device_configs, args>>

NextKeys == TickKeys \/ Sleep

SpecKeys == InitLines /\ [][NextKeys]_vars

(***************************************************************************)
(* C27: in the scan of a tick, a line whose key has no record inserts one  *)
(* at position min(hint + 1, length), which becomes the hint, and the      *)
(* records that were there are what remains when it is taken out again, in *)
(* their order; a line whose key has a record leaves the records where     *)
(* they are; after every line the hint is below the length unless the      *)
(* ledger is empty; and the tick evaluates the records in the order the    *)
(* scan left.                                                              *)
(***************************************************************************)
\* The scan of the tick being taken, after its first k lines.
ScanOf(k) ==
    ScanLines(ResetAccumulators(state), SubSeq(buf', 1, k), 1, 0,
              default_config)

RemoveAt(vec, pos) == SubSeq(vec, 1, pos - 1) \o SubSeq(vec, pos + 1, Len(vec))
NamesInOrder(vec) == [i \in 1 .. Len(vec) |-> vec[i].name]

FirstTickOf(name) == name \notin Names(state) \/ buf = << >>

C28_NoSpinDownInFirstTick ==
    [][TickStep =>
         \A name \in Names(state') :
           FirstTickOf(name) => Count(trace', "spindown", name) = 0]_vars

\* A record spun down by the tick that made it, on a line of zero counts.
C28_SpunDownWhenMet ==
    /\ pc \in {"tick", "sleep"}
    /\ \E i \in 1 .. Len(state) :
         /\ \A k \in 1 .. Len(device_configs) :
              device_configs[k].name # state[i].name
         /\ state[i].last_io = UNIX_EPOCH
         /\ state[i].sectors = 0
         /\ Count(trace, "spindown", state[i].name) = 1

(***************************************************************************)
(* C29: the tick that finds a device Synced leaves it Idle without sync or *)
(* spin-down, and when its delta is not 0 the record retains the counts    *)
(* and the time of this tick; so a next tick that reads the same snapshot  *)
(* again, at any later clock value, sees a delta of 0 for the device,      *)
(* leaves it Idle and issues no sync and no spin-down for it.              *)
(***************************************************************************)
\* The next tick on the snapshot just read, at clock value t.
SameSnapshotAgain(t) ==
    app_tick(state', default_config, mounts', [ok |-> TRUE, lines |-> buf'],
             t, NoFail)

C29_SyncAbsorbed ==
    [][TickDone =>
         \A name \in Names(state) :
           Rec(state, name).state = Synced =>
             /\ Rec(state', name).state = Idle
             /\ \A k \in 1 .. Len(trace') :
                  trace'[k].dev = name => trace'[k].op = "on_tick"
             /\ DeltaOf(name) # 0 =>
                  /\ Rec(state', name).sectors = Rec(state', name).new_sectors
                  /\ Rec(state', name).last_io = now'
             /\ \A t \in {u \in Times : u >= now'} :
                  \E r \in {SameSnapshotAgain(t)} :
                    /\ Rec(r.vec, name).state = Idle
                    /\ \A k \in 1 .. Len(r.ev) :
                         r.ev[k].dev = name =>
                           r.ev[k].op = "on_tick" /\ r.ev[k].n = 0]_vars

\* A device left Idle by a tick that found it Synced and saw a delta that
\* is not 0.
C29_Witness ==
    /\ pc \in {"tick", "sleep"}
    /\ \E i \in 1 .. Len(state) :
         /\ state[i].state = Idle
         /\ state[i].last_io = now
         /\ state[i].sectors # 0
         /\ Count(trace, "spindown", state[i].name) = 0
         /\ \E k \in At(trace, "on_tick", state[i].name) : trace[k].n # 0

=============================================================================
